---- MODULE Spec2Model ----
(***************************************************************************)
(* verhel.py: a command line tool that keeps project descriptors in a JSON *)
(* store (verhel.json) and generates version/build-metadata source files   *)
(* from them.  Every command is one process: it loads the store from the   *)
(* file, works on the in-memory copy, possibly saves it, and exits with a  *)
(* status.  The state of the model is the file, and what the last command  *)
(* did.                                                                    *)
(***************************************************************************)
EXTENDS FiniteSets, Integers, Sequences, TLC

VARIABLES
    fileState,  \* the projects file: "missing", "malformed" or "ok"
    store,      \* the JSON object in the projects file (project name -> value)
    last,       \* the last command: its arguments, exit status, exception, output
    gen,        \* what the last command did when it was generate (steps, values, files)
    nops        \* the number of commands run so far

vars == <<fileState, store, last, gen, nops>>

(***************************************************************************)
(* JSON / Python values as a tagged union.                                 *)
(***************************************************************************)
VNull    == [t |-> "null"]
VStr(s)  == [t |-> "str", s |-> s]
VInt(i)  == [t |-> "int", i |-> i]
VBool(b) == [t |-> "bool", b |-> b]
VList(l) == [t |-> "list", l |-> l]
VObj(f)  == [t |-> "obj", f |-> f]

TypeOf(v) == v.t

\* dict.get(key): None when the key is absent.
DictGet(d, key) == IF key \in DOMAIN d.f THEN d.f[key] ELSE VNull

\* d[key] = value on a dict (adds the key when it is absent).
DictSet(d, key, value) ==
    VObj([k \in (DOMAIN d.f) \cup {key} |-> IF k = key THEN value ELSE d.f[k]])

\* self.projects.get(name) on the loaded store.
ProjectsGet(projects, name) == IF name \in DOMAIN projects THEN projects[name] ELSE VNull

\* The empty function (an empty dict's content).
EmptyFcn == [k \in {} |-> VNull]

\* The single-entry dict {key: value}.
Entry(key, value) == VObj([k \in {key} |-> value])

Min(S) == CHOOSE m \in S : \A n \in S : m <= n

(***************************************************************************)
(* Strings: str.strip, str.upper, int(str), str(int), str.startswith.      *)
(***************************************************************************)
CharAt(s, i) == SubSeq(s, i, i)
Whitespace == {" ", "\t", "\n"}
DigitChars == "0123456789"
LowerChars == "abcdefghijklmnopqrstuvwxyz"
UpperChars == "ABCDEFGHIJKLMNOPQRSTUVWXYZ"

startswith(s, prefix) == Len(s) >= Len(prefix) /\ SubSeq(s, 1, Len(prefix)) = prefix

RECURSIVE lstrip(_)
lstrip(s) ==
    IF Len(s) > 0 /\ CharAt(s, 1) \in Whitespace THEN lstrip(SubSeq(s, 2, Len(s))) ELSE s

RECURSIVE rstrip(_)
rstrip(s) ==
    IF Len(s) > 0 /\ CharAt(s, Len(s)) \in Whitespace
    THEN rstrip(SubSeq(s, 1, Len(s) - 1)) ELSE s

strip(s) == lstrip(rstrip(s))

IsDigit(c) == \E d \in 1..10 : CharAt(DigitChars, d) = c
DigitOf(c) == (CHOOSE d \in 1..10 : CharAt(DigitChars, d) = c) - 1

RECURSIVE DigitsValue(_)
DigitsValue(s) ==
    IF Len(s) = 0 THEN 0
    ELSE DigitsValue(SubSeq(s, 1, Len(s) - 1)) * 10 + DigitOf(CharAt(s, Len(s)))

\* int(s): [ok |-> FALSE] stands for ValueError.
int(s) ==
    LET t == strip(s)
        signed == Len(t) > 0 /\ CharAt(t, 1) \in {"+", "-"}
        body == IF signed THEN SubSeq(t, 2, Len(t)) ELSE t
        isInt == Len(body) > 0 /\ \A i \in 1..Len(body) : IsDigit(CharAt(body, i))
    IN  IF ~isInt THEN [ok |-> FALSE, value |-> 0]
        ELSE [ok |-> TRUE,
              value |-> IF signed /\ CharAt(t, 1) = "-"
                        THEN 0 - DigitsValue(body) ELSE DigitsValue(body)]

RECURSIVE NatStr(_)
NatStr(n) ==
    IF n < 10 THEN CharAt(DigitChars, n + 1)
    ELSE NatStr(n \div 10) \o CharAt(DigitChars, (n % 10) + 1)

\* str(i) of an int.
IntStr(i) == IF i < 0 THEN "-" \o NatStr(0 - i) ELSE NatStr(i)

\* The upper case of each lower case letter, and the reverse.
ToUpper ==
    [c \in {CharAt(LowerChars, i) : i \in 1..26} |->
        CharAt(UpperChars, CHOOSE i \in 1..26 : CharAt(LowerChars, i) = c)]
ToLower ==
    [c \in {CharAt(UpperChars, i) : i \in 1..26} |->
        CharAt(LowerChars, CHOOSE i \in 1..26 : CharAt(UpperChars, i) = c)]

UpperChar(c) == IF c \in DOMAIN ToUpper THEN ToUpper[c] ELSE c
LowerChar(c) == IF c \in DOMAIN ToLower THEN ToLower[c] ELSE c

RECURSIVE upper(_)
upper(s) == IF Len(s) = 0 THEN "" ELSE UpperChar(CharAt(s, 1)) \o upper(SubSeq(s, 2, Len(s)))

RECURSIVE lower(_)
lower(s) == IF Len(s) = 0 THEN "" ELSE LowerChar(CharAt(s, 1)) \o lower(SubSeq(s, 2, Len(s)))

\* str(value) as format() and print() apply it to a cooked or stored value.
PyStr(v) ==
    CASE TypeOf(v) = "str"  -> v.s
      [] TypeOf(v) = "int"  -> IntStr(v.i)
      [] TypeOf(v) = "bool" -> IF v.b THEN "True" ELSE "False"
      [] TypeOf(v) = "null" -> "None"
      [] OTHER              -> "<repr>"

(***************************************************************************)
(* Exit codes.                                                             *)
(***************************************************************************)
SUCCESS                       == 0
FAILED_TO_LOAD_PROJECTS       == 1
FAILED_TO_SAVE_PROJECTS       == 2
FAILED_TO_LOAD_FRONTENDS      == 3
FAILED_TO_LOAD_BACKENDS       == 4
PROJECT_DOESNT_EXISTS         == 5
PROJECT_ALREADY_EXISTS        == 6
PROJECT_VALIDATION_FAILED     == 7
FRONTEND_DOESNT_EXISTS        == 8
BACKEND_DOESNT_EXISTS         == 9
FAILED_TO_ENTER_PROJECT_DIR   == 10
VERSION_CONTROL_NOT_INSTALLED == 11
REPO_DOESNT_EXISTS            == 12
INVALID_KEY                   == 13
INVALID_VALUE                 == 14
VERSION_IS_NULL               == 15

ExitCodes == 0..15

\* A handler returns an exit code, or an exception other than VerHelError leaves
\* it: main() then ends with a traceback and the interpreter's exit status 1.
Ret(code) == [code |-> code, exc |-> "none"]
Raise(exc) == [code |-> 1, exc |-> exc]

(***************************************************************************)
(* Project descriptors.                                                    *)
(***************************************************************************)
EmptyKeys ==
    {"backends", "exclude", "frontend", "license.spdx", "license.file",
     "project.name", "project.author", "project.copyright", "project.description",
     "project.directory", "version.major", "version.minor", "version.patch",
     "version.pre_release"}

empty_project ==
    VObj([k \in EmptyKeys |->
            IF k \in {"backends", "exclude"} THEN VList(<< >>) ELSE VNull])

default_project ==
    VObj([k \in EmptyKeys |->
            CASE k \in {"backends", "exclude"} -> VList(<< >>)
              [] k = "version.major" -> VInt(0)
              [] k = "version.minor" -> VInt(1)
              [] k = "version.patch" -> VInt(0)
              [] OTHER -> VStr("")])

\* validate_project.check: TRUE when the value has the expected type or is null
\* (FALSE stands for the TypeError).
check(desc, key, expected_type) == TypeOf(DictGet(desc, key)) \in {expected_type, "null"}

\* list.index(x): the first position holding a value equal to x.
index(list, x) == Min({i \in 1..Len(list) : list[i] = x})

\* list(bk.keys())[0] of a dict with at most one key.
FirstKey(bk) == CHOOSE k \in DOMAIN bk.f : TRUE

\* Mutant: the null output of an entry is not rejected.
BackendShapeRaises_nullOutputAccepted(bk) ==
    \/ TypeOf(bk) # "obj"
    \/ Cardinality(DOMAIN bk.f) > 1
    \/ \E name \in DOMAIN bk.f : ~check(bk, name, "str")

\* The first loop over the backends list: one entry raises.
BackendShapeRaises(bk) ==
    \/ TypeOf(bk) # "obj"
    \/ Cardinality(DOMAIN bk.f) > 1
    \/ \E name \in DOMAIN bk.f : ~check(bk, name, "str") \/ bk.f[name] = VNull

\* Mutant: an entry is compared with its right neighbour only.
DuplicateRaises_neighbourOnly(list, j) ==
    LET bk == list[j]
        idx == index(list, bk)
    IN  IF DOMAIN bk.f = {} THEN TRUE
        ELSE LET name == FirstKey(bk)
                 output == DictGet(bk, name)
             IN  \E i \in 1..Len(list) :
                    /\ i = idx + 1
                    /\ \/ DictGet(list[i], name) # VNull
                       \/ DOMAIN list[i].f = {}
                       \/ DictGet(list[i], FirstKey(list[i])) = output

\* The second loop (check for duplicates): the iteration at position j raises.
\* list(bk.keys())[0] raises IndexError on an empty dict.
DuplicateRaises(list, j) ==
    LET bk == list[j]
        idx == index(list, bk)
    IN  IF DOMAIN bk.f = {} THEN TRUE
        ELSE LET name == FirstKey(bk)
                 output == DictGet(bk, name)
             IN  \E i \in 1..Len(list) :
                    /\ i # idx
                    /\ \/ DictGet(list[i], name) # VNull
                       \/ DOMAIN list[i].f = {}
                       \/ DictGet(list[i], FirstKey(list[i])) = output

\* The "Check backends" block raises for this (non-null) value of "backends".
BackendsRaise(backends_list) ==
    \/ TypeOf(backends_list) # "list"
    \/ \E j \in 1..Len(backends_list.l) : BackendShapeRaises(backends_list.l[j])
    \/ \E j \in 1..Len(backends_list.l) : DuplicateRaises(backends_list.l, j)

StrKeysChecked ==
    {"frontend", "license.spdx", "license.file", "project.author", "project.copyright",
     "project.company", "project.description", "project.directory", "project.name"}

\* validate_project: TRUE when it returns, FALSE when it raises
\* VerHelError(PROJECT_VALIDATION_FAILED); every exception in it is converted.
validate_project(projects, project_name) ==
    LET desc == ProjectsGet(projects, project_name)
    IN  /\ TypeOf(desc) = "obj"
        /\ check(desc, "version.major", "int")
        /\ check(desc, "version.minor", "int")
        /\ check(desc, "version.patch", "int")
        /\ check(desc, "version.pre_release", "str")
        /\ DictGet(desc, "backends") # VNull => ~BackendsRaise(DictGet(desc, "backends"))
        /\ \A key \in StrKeysChecked : check(desc, key, "str")
        /\ check(desc, "exclude", "list")

\* The dangling-property warnings validate_project logs after a success.
DanglingProperties(desc) == (DOMAIN desc.f) \ EmptyKeys

\* Mutant: version.major alone is required.
validate_version_majorOnly(desc) == DictGet(desc, "version.major") # VNull

\* validate_version: TRUE when it returns, FALSE for VerHelError(VERSION_IS_NULL).
validate_version(desc) ==
    /\ DictGet(desc, "version.major") # VNull
    /\ DictGet(desc, "version.minor") # VNull
    /\ DictGet(desc, "version.patch") # VNull

\* Mutant: the global value replaces every key the global sets.
use_global_desc_values_overwrite(projects, project_name, glob_name) ==
    LET desc == projects[project_name]
        glob_desc == ProjectsGet(projects, glob_name)
    IN  IF glob_desc = VNull THEN projects
        ELSE [projects EXCEPT ![project_name] =
                VObj([key \in DOMAIN desc.f |->
                        IF DictGet(glob_desc, key) # VNull
                        THEN DictGet(glob_desc, key) ELSE desc.f[key]])]

\* Mutant: the null descriptive fields of the project take the default
\* project's value before the global descriptor is consulted.
use_global_desc_values_afterDefaults(projects, project_name, glob_name) ==
    LET desc == projects[project_name]
        glob_desc == ProjectsGet(projects, glob_name)
        defaulted(key) ==
            IF /\ desc.f[key] = VNull
               /\ key \in {"project.name", "project.author", "project.copyright",
                           "project.description"}
            THEN DictGet(default_project, key) ELSE desc.f[key]
    IN  IF glob_desc = VNull THEN projects
        ELSE [projects EXCEPT ![project_name] =
                VObj([key \in DOMAIN desc.f |->
                        IF defaulted(key) = VNull
                        THEN DictGet(glob_desc, key) ELSE defaulted(key)])]

\* use_global_desc_values: the in-memory projects after the call.  desc is the
\* object stored under project_name, changed in place.
use_global_desc_values(projects, project_name, glob_name) ==
    LET desc == projects[project_name]
        glob_desc == ProjectsGet(projects, glob_name)
    IN  IF glob_desc = VNull THEN projects
        ELSE [projects EXCEPT ![project_name] =
                VObj([key \in DOMAIN desc.f |->
                        IF desc.f[key] = VNull
                        THEN DictGet(glob_desc, key) ELSE desc.f[key]])]

\* check_if_name_is_valid: the key it returns, ok = FALSE for INVALID_KEY.
check_if_name_is_valid(name) ==
    IF startswith(name, "backends.")
    THEN IF Len(name) = Len("backends.")
         THEN [ok |-> FALSE, key |-> ""]
         ELSE [ok |-> TRUE, key |-> SubSeq(name, Len("backends.") + 1, Len(name))]
    ELSE [ok |-> name \in EmptyKeys, key |-> name]

(***************************************************************************)
(* Loading and saving the projects file.                                   *)
(***************************************************************************)
\* How save_projects ends: the file is written, open() fails (the file is left
\* as it was), or write() fails after open() truncated the file.
SaveOutcomes == {"ok", "open_failed", "write_failed"}

\* save_projects: the file afterwards and whether VerHelError was raised.
save_projects(fs, st, projects, outcome) ==
    CASE outcome = "ok" ->
            [fileState |-> "ok", store |-> projects, ok |-> TRUE]
      [] outcome = "open_failed" ->
            [fileState |-> fs, store |-> st, ok |-> FALSE]
      [] OTHER ->
            [fileState |-> "malformed", store |-> EmptyFcn, ok |-> FALSE]

\* The for/break loop of get and set over the backends list: the index it
\* stops at (len(backends) when no entry has the key), or the exception of
\* bk.get on an entry that is no dict.
BackendScan(l, key) ==
    LET stops == {i \in 1..Len(l) : TypeOf(l[i]) # "obj" \/ DictGet(l[i], key) # VNull}
    IN  IF stops = {} THEN [exc |-> "none", index |-> Len(l)]
        ELSE IF TypeOf(l[Min(stops)]) # "obj"
             THEN [exc |-> "AttributeError", index |-> Min(stops) - 1]
             ELSE [exc |-> "none", index |-> Min(stops) - 1]

\* "for bk in backends" over a value that is no list: not iterable (TypeError),
\* or its items (characters, keys) have no get (AttributeError); "empty" when
\* the loop body never runs.
NonListScan(v) ==
    CASE TypeOf(v) \in {"null", "int", "bool"} -> "TypeError"
      [] TypeOf(v) = "str" /\ Len(v.s) = 0 -> "empty"
      [] TypeOf(v) = "obj" /\ DOMAIN v.f = {} -> "empty"
      [] OTHER -> "AttributeError"

RemoveAt(l, i) == SubSeq(l, 1, i - 1) \o SubSeq(l, i + 1, Len(l))

(***************************************************************************)
(* The commands.  Each handler gives the exit status, the exception that   *)
(* left it (if any), what it printed and the projects it asks to save.     *)
(***************************************************************************)
Done(r, out) == [code |-> r.code, exc |-> r.exc, out |-> out]

\* VerHel.get
get_handler(fs, st, project_name, property_name) ==
    LET nv == check_if_name_is_valid(property_name)
        key == nv.key
        desc == ProjectsGet(st, project_name)
    IN  IF ~nv.ok THEN Done(Ret(INVALID_KEY), << >>)
        ELSE IF fs # "ok" THEN Done(Ret(FAILED_TO_LOAD_PROJECTS), << >>)
        ELSE IF desc = VNull THEN Done(Ret(PROJECT_DOESNT_EXISTS), << >>)
        ELSE IF startswith(property_name, "backends.")
        THEN IF TypeOf(desc) # "obj" THEN Done(Raise("AttributeError"), << >>)
             ELSE LET backends == DictGet(desc, "backends")
                  IN  IF TypeOf(backends) # "list"
                      THEN IF NonListScan(backends) = "empty"
                           THEN Done(Ret(BACKEND_DOESNT_EXISTS), << >>)
                           ELSE Done(Raise(NonListScan(backends)), << >>)
                      ELSE LET scan == BackendScan(backends.l, key)
                           IN  IF scan.exc # "none" THEN Done(Raise(scan.exc), << >>)
                               ELSE IF scan.index = Len(backends.l)
                               THEN Done(Ret(BACKEND_DOESNT_EXISTS), << >>)
                               ELSE Done(Ret(SUCCESS),
                                         <<PyStr(backends.l[scan.index + 1].f[key])>>)
        ELSE IF TypeOf(desc) # "obj" THEN Done(Raise("TypeError"), << >>)
        ELSE IF key \notin DOMAIN desc.f THEN Done(Raise("KeyError"), << >>)
        ELSE Done(Ret(SUCCESS), <<PyStr(desc.f[key])>>)

\* Mutant: the text "null" clears an integer property.
set_handler_nullClears(fs, st, project_name, property_name, new_value) ==
    LET nv == check_if_name_is_valid(property_name)
        key == nv.key
        desc == ProjectsGet(st, project_name)
        NoSave(r) == [code |-> r.code, exc |-> r.exc, projects |-> st, save |-> FALSE]
        Save(d) == [code |-> SUCCESS, exc |-> "none",
                    projects |-> [st EXCEPT ![project_name] = d], save |-> TRUE]
    IN  IF ~nv.ok THEN NoSave(Ret(INVALID_KEY))
        ELSE IF fs # "ok" THEN NoSave(Ret(FAILED_TO_LOAD_PROJECTS))
        ELSE IF desc = VNull THEN NoSave(Ret(PROJECT_DOESNT_EXISTS))
        ELSE IF TypeOf(desc) # "obj" THEN NoSave(Raise("AttributeError"))
        ELSE IF startswith(key, "backends.")
        THEN LET backends == DictGet(desc, "backends")
             IN  IF TypeOf(backends) # "list"
                 THEN IF NonListScan(backends) = "empty"
                      THEN IF new_value # "null"
                           THEN NoSave(Raise("AttributeError"))
                           ELSE Save(desc)
                      ELSE NoSave(Raise(NonListScan(backends)))
                 ELSE LET l == backends.l
                          scan == BackendScan(l, key)
                          i == scan.index + 1
                          With(nl) == Save(DictSet(desc, "backends", VList(nl)))
                      IN  IF scan.exc # "none" THEN NoSave(Raise(scan.exc))
                          ELSE IF scan.index = Len(l)
                          THEN IF new_value # "null"
                               THEN With(Append(l, Entry(key, VStr(new_value))))
                               ELSE Save(desc)
                          ELSE IF new_value # "null"
                               THEN With([l EXCEPT ![i] = DictSet(l[i], key, VStr(new_value))])
                               ELSE With(RemoveAt(l, i))
        ELSE IF key \notin DOMAIN default_project.f THEN NoSave(Raise("KeyError"))
        ELSE IF TypeOf(default_project.f[key]) = "int"
        THEN IF new_value = "null" THEN Save(DictSet(desc, key, VNull))
             ELSE IF ~int(new_value).ok
             THEN NoSave(Ret(INVALID_VALUE))
             ELSE Save(DictSet(desc, key, VInt(int(new_value).value)))
        ELSE Save(DictSet(desc, key, VStr(new_value)))

\* VerHel.set, up to the call of save_projects: save = TRUE when it is reached,
\* with the in-memory projects to be written.
set_handler(fs, st, project_name, property_name, new_value) ==
    LET nv == check_if_name_is_valid(property_name)
        key == nv.key
        desc == ProjectsGet(st, project_name)
        NoSave(r) == [code |-> r.code, exc |-> r.exc, projects |-> st, save |-> FALSE]
        Save(d) == [code |-> SUCCESS, exc |-> "none",
                    projects |-> [st EXCEPT ![project_name] = d], save |-> TRUE]
    IN  IF ~nv.ok THEN NoSave(Ret(INVALID_KEY))
        ELSE IF fs # "ok" THEN NoSave(Ret(FAILED_TO_LOAD_PROJECTS))
        ELSE IF desc = VNull THEN NoSave(Ret(PROJECT_DOESNT_EXISTS))
        ELSE IF TypeOf(desc) # "obj" THEN NoSave(Raise("AttributeError"))
        ELSE IF startswith(key, "backends.")
        THEN LET backends == DictGet(desc, "backends")
             IN  IF TypeOf(backends) # "list"
                 THEN IF NonListScan(backends) = "empty"
                      THEN IF new_value # "null"
                           THEN NoSave(Raise("AttributeError"))
                           ELSE Save(desc)
                      ELSE NoSave(Raise(NonListScan(backends)))
                 ELSE LET l == backends.l
                          scan == BackendScan(l, key)
                          i == scan.index + 1
                          With(nl) == Save(DictSet(desc, "backends", VList(nl)))
                      IN  IF scan.exc # "none" THEN NoSave(Raise(scan.exc))
                          ELSE IF scan.index = Len(l)
                          THEN IF new_value # "null"
                               THEN With(Append(l, Entry(key, VStr(new_value))))
                               ELSE Save(desc)
                          ELSE IF new_value # "null"
                               THEN With([l EXCEPT ![i] = DictSet(l[i], key, VStr(new_value))])
                               ELSE With(RemoveAt(l, i))
        ELSE IF key \notin DOMAIN default_project.f THEN NoSave(Raise("KeyError"))
        ELSE IF TypeOf(default_project.f[key]) = "int"
        THEN IF ~int(new_value).ok
             THEN NoSave(Ret(INVALID_VALUE))
             ELSE Save(DictSet(desc, key, VInt(int(new_value).value)))
        ELSE Save(DictSet(desc, key, VStr(new_value)))

\* VerHel.init, up to the call of save_projects.  projects_file is the
\* --projects-file argument, "" when it is not given (None).
init_handler(fs, st, project_name, projects_file) ==
    LET NoSave(r) == [code |-> r.code, exc |-> r.exc, projects |-> st, save |-> FALSE]
        loaded == IF fs = "ok" THEN st ELSE EmptyFcn
        added == [n \in (DOMAIN loaded) \cup {project_name} |->
                    IF n = project_name THEN empty_project ELSE loaded[n]]
    IN  IF projects_file = "" THEN NoSave(Raise("TypeError"))
        ELSE IF fs = "malformed" THEN NoSave(Ret(FAILED_TO_LOAD_PROJECTS))
        ELSE IF fs = "ok" /\ project_name \in DOMAIN st
        THEN NoSave(Ret(PROJECT_ALREADY_EXISTS))
        ELSE [code |-> SUCCESS, exc |-> "none", projects |-> added, save |-> TRUE]

\* VerHel.delete, up to the call of save_projects.
delete_handler(fs, st, project_name) ==
    LET NoSave(r) == [code |-> r.code, exc |-> r.exc, projects |-> st, save |-> FALSE]
    IN  IF fs # "ok" THEN NoSave(Ret(FAILED_TO_LOAD_PROJECTS))
        ELSE IF ProjectsGet(st, project_name) = VNull
        THEN NoSave(Ret(PROJECT_DOESNT_EXISTS))
        ELSE [code |-> SUCCESS, exc |-> "none",
              projects |-> [n \in (DOMAIN st) \ {project_name} |-> st[n]],
              save |-> TRUE]

\* VerHel.info
info_handler(fs, st, project_name) ==
    IF fs # "ok" THEN Done(Ret(FAILED_TO_LOAD_PROJECTS), << >>)
    ELSE IF ProjectsGet(st, project_name) = VNull
    THEN Done(Ret(PROJECT_DOESNT_EXISTS), << >>)
    ELSE Done(Ret(SUCCESS), <<"<json>">>)

\* VerHel.validate
validate_handler(fs, st, project_name) ==
    IF fs # "ok" THEN Done(Ret(FAILED_TO_LOAD_PROJECTS), << >>)
    ELSE IF ProjectsGet(st, project_name) = VNull
    THEN Done(Ret(PROJECT_DOESNT_EXISTS), << >>)
    ELSE IF ~validate_project(st, project_name)
    THEN Done(Ret(PROJECT_VALIDATION_FAILED), << >>)
    ELSE Done(Ret(SUCCESS), <<"OK">>)

\* VerHel.list_projects
list_projects_handler(fs) ==
    IF fs # "ok" THEN Done(Ret(FAILED_TO_LOAD_PROJECTS), << >>)
    ELSE Done(Ret(SUCCESS), <<"<keys>">>)

\* VerHel.list_frontends / list_backends: the descriptors come from the built-in
\* buffer when no file is named, else from the file, which may fail to load.
list_descriptors_handler(loads, failure) ==
    IF ~loads THEN Done(Ret(failure), << >>) ELSE Done(Ret(SUCCESS), <<"<keys>">>)

(***************************************************************************)
(* Frontends and backends: the built-in descriptors.                       *)
(***************************************************************************)
QueryNames ==
    {"get.repo", "get.commit_hash", "get.short_hash", "get.tag", "get.branch",
     "get.commit_count"}

\* The "cmd" of each query of the git frontend.
GitCmd ==
    [q \in QueryNames |->
        CASE q = "get.repo"        -> "git rev-parse --git-dir"
          [] q = "get.commit_hash" -> "git rev-parse HEAD"
          [] q = "get.short_hash"  -> "git rev-parse --short HEAD"
          [] q = "get.tag"         -> "git describe --tags --abbrev=0 --exact-match"
          [] q = "get.branch"      -> "git rev-parse --abbrev-ref HEAD"
          [] OTHER                 -> "git rev-list --count HEAD"]

\* FRONTENDS_DESC: the git frontend.
FRONTENDS_DESC ==
    [n \in {"git"} |->
        [exe |-> "git",
         cmds |-> [q \in QueryNames |->
                     [cmd |-> VStr(GitCmd[q]),
                      ret_codes |-> IF q = "get.tag" THEN {0, 128} ELSE {0}]]]]

\* A format template with the two positional fields {0} and {1}, each with an
\* optional conversion (!u, !l), as VerHelFormatter.format applies it.
Template(pre, conv0, mid, conv1, post) ==
    [pre |-> pre, conv0 |-> conv0, mid |-> mid, conv1 |-> conv1, post |-> post]

CppVarMap ==
    << <<"version.major",       "VERSION_MAJOR      ">>,
       <<"version.minor",       "VERSION_MINOR      ">>,
       <<"version.patch",       "VERSION_PATCH      ">>,
       <<"version.pre_release", "VERSION_PRE_RELEASE">>,
       <<"version.string",      "VERSION_STRING     ">>,
       <<"project.name",        "PROJECT_NAME       ">>,
       <<"project.author",      "PROJECT_AUTHOR     ">>,
       <<"project.license",     "PROJECT_LICENSE    ">>,
       <<"project.copyright",   "PROJECT_COPYRIGHT  ">>,
       <<"project.description", "PROJECT_DESCRIPTION">>,
       <<"project.directory",   "PROJECT_DIRECTORY  ">>,
       <<"project.path",        "PROJECT_PATH       ">>,
       <<"build.date",          "BUILD_DATE         ">>,
       <<"build.time",          "BUILD_TIME         ">>,
       <<"vcs.name",            "VCS_NAME           ">>,
       <<"vcs.commit_hash",     "VCS_COMMIT_HASH    ">>,
       <<"vcs.short_hash",      "VCS_SHORT_HASH     ">>,
       <<"vcs.tag",             "VCS_TAG            ">>,
       <<"vcs.branch",          "VCS_BRANCH         ">>,
       <<"vcs.commit_count",    "VCS_COMMIT_COUNT   ">> >>

\* BACKENDS_DESC: the cpp backend.
CppBackend ==
    [source_begin   |-> "#pragma once\n\nnamespace verhel {\n\n",
     source_comment |-> "//",
     source_end     |-> "\n} // namespace verhel\n",
     format_bool    |-> Template("    inline constexpr auto ", "", " = ", "", ";\n"),
     format_number  |-> Template("    inline constexpr auto ", "", " = ", "", ";\n"),
     format_string  |-> Template("    inline constexpr auto ", "", " = \"", "u", "\";\n"),
     var_map        |-> CppVarMap]

BACKENDS_DESC == [n \in {"cpp"} |-> CppBackend]

\* VerHelFormatter.convert_field
convert_field(value, conversion) ==
    CASE conversion = "u" -> upper(value)
      [] conversion = "l" -> lower(value)
      [] OTHER -> value

\* fmtr.format(template, emit_name, value)
Format(template, emit_name, value) ==
    template.pre \o convert_field(emit_name, template.conv0) \o template.mid
        \o convert_field(PyStr(value), template.conv1) \o template.post

\* str.splitlines on "\n".
RECURSIVE splitlines(_)
splitlines(s) ==
    IF Len(s) = 0 THEN << >>
    ELSE LET nl == {i \in 1..Len(s) : CharAt(s, i) = "\n"}
         IN  IF nl = {} THEN <<s>>
             ELSE <<SubSeq(s, 1, Min(nl) - 1)>> \o splitlines(SubSeq(s, Min(nl) + 1, Len(s)))

(***************************************************************************)
(* The VCS query engine.  env.run gives, for each query name, how the      *)
(* command ends: kind "exit" with a return code and standard output,       *)
(* "timeout", or "error" (the process cannot be launched).                 *)
(***************************************************************************)
\* run_cmd: ok = FALSE when it raises Exception.
run_cmd(env, cmd_name) ==
    LET o == env.run[cmd_name]
    IN  IF o.kind = "exit" THEN [ok |-> TRUE, ret |-> o.ret, out |-> o.out]
        ELSE [ok |-> FALSE, ret |-> 0, out |-> ""]

\* Mutant: the exception of run_cmd is not taken for a missing repository.
check_if_project_repo_exists_retOnly(frontend, env) ==
    LET r == run_cmd(env, "get.repo")
    IN  r.ret \in frontend.cmds["get.repo"].ret_codes

\* check_if_project_repo_exists: FALSE for VerHelError(REPO_DOESNT_EXISTS).
check_if_project_repo_exists(frontend, env) ==
    LET r == run_cmd(env, "get.repo")
    IN  r.ok /\ r.ret \in frontend.cmds["get.repo"].ret_codes

\* Mutant: an accepted exit code other than 0 gives None.
run_wrapper_zeroOnly(frontend, env, cmd_name, out_type) ==
    LET cmd_obj == frontend.cmds[cmd_name]
        r == run_cmd(env, cmd_name)
    IN  IF cmd_obj.cmd = VNull \/ ~r.ok \/ r.ret \notin cmd_obj.ret_codes \/ r.ret # 0
        THEN [exc |-> "none", value |-> VNull]
        ELSE IF out_type = "int"
        THEN IF int(strip(r.out)).ok
             THEN [exc |-> "none", value |-> VInt(int(strip(r.out)).value)]
             ELSE [exc |-> "ValueError", value |-> VNull]
        ELSE [exc |-> "none", value |-> VStr(strip(r.out))]

\* get_vcs_info.run_wrapper: the value of one query; int() of an output that is
\* no integer raises ValueError outside the try block.
run_wrapper(frontend, env, cmd_name, out_type) ==
    LET cmd_obj == frontend.cmds[cmd_name]
        r == run_cmd(env, cmd_name)
    IN  IF cmd_obj.cmd = VNull \/ ~r.ok \/ r.ret \notin cmd_obj.ret_codes
        THEN [exc |-> "none", value |-> VNull]
        ELSE IF out_type = "int"
        THEN IF int(strip(r.out)).ok
             THEN [exc |-> "none", value |-> VInt(int(strip(r.out)).value)]
             ELSE [exc |-> "ValueError", value |-> VNull]
        ELSE [exc |-> "none", value |-> VStr(strip(r.out))]

VcsQueryOrder ==
    <<"get.commit_hash", "get.short_hash", "get.tag", "get.branch", "get.commit_count">>

VcsField(cmd_name) == SubSeq(cmd_name, Len("get.") + 1, Len(cmd_name))

\* get_vcs_info: the info dict, the queries run, and the exception that left it.
get_vcs_info(frontend, frontend_name, env) ==
    LET W(q) == run_wrapper(frontend, env, q, IF q = "get.commit_count" THEN "int" ELSE "str")
        bad == {i \in 1..Len(VcsQueryOrder) : W(VcsQueryOrder[i]).exc # "none"}
        n == IF bad = {} THEN Len(VcsQueryOrder) ELSE Min(bad)
    IN  [exc |-> IF bad = {} THEN "none" ELSE W(VcsQueryOrder[Min(bad)]).exc,
         queries |-> SubSeq(VcsQueryOrder, 1, n),
         info |-> VObj([k \in {"name"} \cup {VcsField(VcsQueryOrder[i]) : i \in 1..Len(VcsQueryOrder)} |->
                         IF k = "name" THEN VStr(frontend_name)
                         ELSE W("get." \o k).value])]

(***************************************************************************)
(* Cooking and rendering.                                                  *)
(***************************************************************************)
\* cook_info.dget: default_value = VNull when the argument is not given.
dget(desc, key, default_value) ==
    LET value == DictGet(desc, key)
    IN  IF value = VNull
        THEN IF default_value = VNull
             THEN DictGet(default_project, key)
             ELSE default_value
        ELSE value

CookedKeys ==
    {"version.major", "version.minor", "version.patch", "version.pre_release",
     "version.string", "project.name", "project.author", "project.license",
     "project.copyright", "project.company", "project.description",
     "project.directory", "project.path", "license.spdx", "license.file",
     "build.date", "build.time", "vcs.name", "vcs.commit_hash", "vcs.short_hash",
     "vcs.branch", "vcs.tag", "vcs.commit_count"}

VcsKeys ==
    {"vcs.name", "vcs.commit_hash", "vcs.short_hash", "vcs.tag", "vcs.branch",
     "vcs.commit_count"}

\* Mutant: the pre-release is left out of the version string.
VersionString_noPreRelease(desc) ==
    VStr(PyStr(DictGet(desc, "version.major")) \o "."
         \o PyStr(DictGet(desc, "version.minor")) \o "."
         \o PyStr(DictGet(desc, "version.patch")))

\* cook_info: the value of info["version.string"].
VersionString(desc) ==
    LET pre == DictGet(desc, "version.pre_release")
        mmp == PyStr(DictGet(desc, "version.major")) \o "."
               \o PyStr(DictGet(desc, "version.minor")) \o "."
               \o PyStr(DictGet(desc, "version.patch"))
    IN  IF pre # VNull THEN VStr(mmp \o "-" \o PyStr(pre)) ELSE VStr(mmp)

\* cook_info: the cooked value set.  vcs_info is the dict of get_vcs_info, or
\* the empty dict; cwd is pathlib.Path.cwd() at cooking time.
cook_info(project_name, desc, build_info, vcs_info, cwd) ==
    LET pre == DictGet(desc, "version.pre_release")
    IN  [k \in CookedKeys |->
            CASE k \in {"version.major", "version.minor", "version.patch"} ->
                    DictGet(desc, k)
              [] k = "version.pre_release" -> IF pre # VNull THEN pre ELSE VStr("")
              [] k = "version.string" -> VersionString(desc)
              [] k = "project.name" -> dget(desc, "project.name", VStr(project_name))
              [] k = "project.license" -> dget(desc, "license.spdx", VNull)
              [] k \in {"project.author", "project.copyright", "project.company",
                        "project.description", "project.directory"} ->
                    dget(desc, k, VNull)
              [] k = "project.path" -> VStr(cwd)
              [] k \in {"license.spdx", "license.file"} -> DictGet(desc, k)
              [] k = "build.date" -> VStr(build_info.date)
              [] k = "build.time" -> VStr(build_info.time)
              [] k = "vcs.name" -> dget(desc, "frontend", VNull)
              [] OTHER -> DictGet(vcs_info, SubSeq(k, Len("vcs.") + 1, Len(k)))]

\* One ss.write of backend_generate: the text, and what it is for.
Chunk(kind, key, text) == [kind |-> kind, key |-> key, text |-> text]

\* The "{} {}\n" lines of the commented license, written at once.
RECURSIVE CommentedLines(_, _)
CommentedLines(source_comment, lines) ==
    IF lines = << >> THEN ""
    ELSE source_comment \o " " \o Head(lines) \o "\n"
         \o CommentedLines(source_comment, Tail(lines))

\* Mutant: a null value is written like a string instead of being skipped.
RECURSIVE VarChunks_nullWritten(_, _, _, _)
VarChunks_nullWritten(backend, cooked_info, excluded_vars, i) ==
    IF i > Len(backend.var_map) THEN << >>
    ELSE LET var_name == backend.var_map[i][1]
             emit_name == backend.var_map[i][2]
             value == cooked_info[var_name]
             rest == VarChunks_nullWritten(backend, cooked_info, excluded_vars, i + 1)
         IN  IF VStr(var_name) \in excluded_vars THEN rest
             ELSE IF TypeOf(value) = "int"
             THEN <<Chunk("var", var_name, Format(backend.format_number, emit_name, value))>>
                  \o rest
             ELSE <<Chunk("var", var_name, Format(backend.format_string, emit_name, value))>>
                  \o rest

\* Mutant: the entries of var_map are written from the last to the first.
RECURSIVE VarChunks_reversed(_, _, _, _)
VarChunks_reversed(backend, cooked_info, excluded_vars, i) ==
    IF i > Len(backend.var_map) THEN << >>
    ELSE LET var_name == backend.var_map[i][1]
             emit_name == backend.var_map[i][2]
             value == cooked_info[var_name]
             rest == VarChunks_reversed(backend, cooked_info, excluded_vars, i + 1)
         IN  IF VStr(var_name) \in excluded_vars THEN rest
             ELSE IF value = VNull THEN rest
             ELSE IF TypeOf(value) = "int"
             THEN rest \o
                  <<Chunk("var", var_name, Format(backend.format_number, emit_name, value))>>
             ELSE rest \o
                  <<Chunk("var", var_name, Format(backend.format_string, emit_name, value))>>

\* The "Write variables" loop from entry i of var_map on.
RECURSIVE VarChunks(_, _, _, _)
VarChunks(backend, cooked_info, excluded_vars, i) ==
    IF i > Len(backend.var_map) THEN << >>
    ELSE LET var_name == backend.var_map[i][1]
             emit_name == backend.var_map[i][2]
             value == cooked_info[var_name]
             rest == VarChunks(backend, cooked_info, excluded_vars, i + 1)
         IN  IF VStr(var_name) \in excluded_vars THEN rest
             ELSE IF value = VNull THEN rest
             ELSE IF TypeOf(value) = "int"
             THEN <<Chunk("var", var_name, Format(backend.format_number, emit_name, value))>>
                  \o rest
             ELSE <<Chunk("var", var_name, Format(backend.format_string, emit_name, value))>>
                  \o rest

\* backend_generate: the writes to the buffer, in order; KeyError when var_map
\* names a key the cooked set does not hold.  license_text is VNull or a string;
\* excluded_vars is the set of the elements of the exclude list.
backend_generate(backend, cooked_info, license_text, excluded_vars) ==
    LET c == backend.source_comment
        license == IF license_text # VNull
                   THEN <<Chunk("license", "",
                                CommentedLines(c, splitlines(rstrip(license_text.s))))>>
                   ELSE << >>
        spdx == IF cooked_info["license.spdx"] # VNull
                THEN (IF license_text # VNull
                      THEN <<Chunk("blank", "", c \o "\n")>> ELSE << >>)
                     \o <<Chunk("spdx", "", c \o " SPDX-License-Identifier: "
                                    \o PyStr(cooked_info["license.spdx"]) \o "\n")>>
                ELSE << >>
        missing == \E i \in 1..Len(backend.var_map) :
                      /\ VStr(backend.var_map[i][1]) \notin excluded_vars
                      /\ backend.var_map[i][1] \notin DOMAIN cooked_info
    IN  IF missing THEN [exc |-> "KeyError", chunks |-> << >>]
        ELSE [exc |-> "none",
              chunks |-> license \o spdx
                  \o <<Chunk("begin", "", backend.source_begin)>>
                  \o VarChunks(backend, cooked_info, excluded_vars, 1)
                  \o <<Chunk("end", "", backend.source_end)>>
                  \o <<Chunk("generated", "",
                             "\n" \o c \o " generated using verhel.py " \o c \o "\n")>>]

\* The elements of a list value, as "x in list" sees them.
Elements(v) == IF TypeOf(v) = "list" THEN {v.l[i] : i \in 1..Len(v.l)} ELSE {}

\* The loop of verhel_generate_sources over the backends list from entry i on:
\* acc holds the files written and the backends rendered so far.  mkdir of the
\* output's parent directory is outside the try block: its OSError leaves the
\* loop; open/write failures are caught and logged.
RECURSIVE GenerateLoop(_, _, _, _, _, _, _)
GenerateLoop(entries, i, acc, cooked_info, license_text, exclude, env) ==
    IF i > Len(entries) THEN acc
    ELSE LET bk_name == FirstKey(entries[i])
             bk_output == entries[i].f[bk_name].s
             backend_known == bk_name \in DOMAIN env.backends
             r == backend_generate(env.backends[bk_name], cooked_info, license_text, exclude)
             rendered == [acc EXCEPT !.rendered = Append(@, bk_name)]
             Continue(a) == GenerateLoop(entries, i + 1, a, cooked_info, license_text, exclude, env)
         IN  IF ~backend_known
             THEN Continue([acc EXCEPT !.skipped = Append(@, bk_name)])
             ELSE IF r.exc # "none" THEN [acc EXCEPT !.exc = r.exc]
             ELSE IF bk_output \in env.mkdir_fail
             THEN [rendered EXCEPT !.exc = "OSError"]
             ELSE IF bk_output \in env.write_fail
             THEN Continue([rendered EXCEPT !.failed = Append(@, bk_output)])
             ELSE Continue([rendered EXCEPT
                          !.files = Append(@, [path |-> bk_output, backend |-> bk_name,
                                               chunks |-> r.chunks]),
                          !.num_success = @ + 1])

\* verhel_generate_sources: desc["license.file"] raises KeyError when the key is
\* absent; an unreadable license file gives no license text.
verhel_generate_sources(project_name, desc, vcs_info, env) ==
    LET license_text == IF DictGet(desc, "license.file") # VNull /\ env.license_readable
                        THEN VStr(env.license_text) ELSE VNull
        cooked_info == cook_info(project_name, desc, env.build_info, vcs_info, env.cwd)
        exclude == Elements(DictGet(desc, "exclude"))
        acc0 == [exc |-> "none", num_success |-> 0, files |-> << >>, rendered |-> << >>,
                 skipped |-> << >>, failed |-> << >>, cooked |-> cooked_info,
                 license_text |-> license_text]
    IN  IF "license.file" \notin DOMAIN desc.f
        THEN [acc0 EXCEPT !.exc = "KeyError", !.cooked = EmptyFcn]
        ELSE GenerateLoop(DictGet(desc, "backends").l, 1, acc0, cooked_info,
                          license_text, exclude, env)

(***************************************************************************)
(* generate.                                                               *)
(***************************************************************************)
\* What a generate run leaves to observe, before it has done anything.
NoGen ==
    [steps |-> << >>, projects |-> EmptyFcn, desc |-> VNull, queries |-> << >>,
     vcs_info |-> VObj(EmptyFcn), cooked |-> EmptyFcn, files |-> << >>,
     rendered |-> << >>, skipped |-> << >>, failed |-> << >>, num_success |-> 0,
     license_text |-> VNull, env |-> EmptyFcn]

\* Mutant: the first entry of the list alone is looked up.
check_if_backends_exists_firstOnly(backends_list, env) ==
    /\ env.fatal_if_bk_not_impl
    /\ \E i \in 1..Min({1, Len(backends_list)}) :
          \E name \in DOMAIN backends_list[i].f : name \notin DOMAIN env.backends

\* check_if_backends_exists: TRUE when it raises BACKEND_DOESNT_EXISTS.
check_if_backends_exists(backends_list, env) ==
    /\ env.fatal_if_bk_not_impl
    /\ \E i \in 1..Len(backends_list) :
          \E name \in DOMAIN backends_list[i].f : name \notin DOMAIN env.backends

\* The steps of generate in the order of the code.
StepOrder ==
    <<"load-projects", "locate-project", "validate-project", "validate-global",
      "apply-global", "require-version", "load-frontends", "check-frontend",
      "check-exe", "load-backends", "check-backends", "chdir", "check-repo",
      "query-vcs", "generate-sources">>

StepIndex(step) == CHOOSE i \in 1..Len(StepOrder) : StepOrder[i] = step

\* The steps a run has entered when it stops in `step': those of the global
\* descriptor are entered with --global-desc-name only, those of the VCS with a
\* frontend only.
Steps(step, use_glob, has_vcs) ==
    LET Entered(x) ==
            /\ StepIndex(x) <= StepIndex(step)
            /\ x \in {"validate-global", "apply-global"} => use_glob
            /\ x \in {"load-frontends", "check-frontend", "check-exe", "check-repo",
                      "query-vcs"} => has_vcs
    IN  SelectSeq(StepOrder, Entered)

\* A run that stops in `step' with result r, having observed g.
Stop(r, step, use_glob, has_vcs, g, env) ==
    [res |-> r, gen |-> [g EXCEPT !.steps = Steps(step, use_glob, has_vcs), !.env = env]]

\* Mutant: a run that did not write every backend's file ends as a failure.
generate_sources_partialFails(src, g2, use_glob, has_vcs, env) ==
    Stop(IF src.exc # "none" THEN Raise(src.exc)
         ELSE IF src.num_success # Len(DictGet(g2.desc, "backends").l)
         THEN Ret(BACKEND_DOESNT_EXISTS)
         ELSE Ret(SUCCESS),
         "generate-sources", use_glob, has_vcs,
         [g2 EXCEPT !.cooked = src.cooked, !.files = src.files,
                    !.rendered = src.rendered, !.skipped = src.skipped,
                    !.failed = src.failed, !.num_success = src.num_success,
                    !.license_text = src.license_text],
         env)

\* generate from the call of verhel_generate_sources on: src is its result.
generate_sources(src, g2, use_glob, has_vcs, env) ==
    Stop(IF src.exc # "none" THEN Raise(src.exc) ELSE Ret(SUCCESS),
         "generate-sources", use_glob, has_vcs,
         [g2 EXCEPT !.cooked = src.cooked, !.files = src.files,
                    !.rendered = src.rendered, !.skipped = src.skipped,
                    !.failed = src.failed, !.num_success = src.num_success,
                    !.license_text = src.license_text],
         env)

\* generate from the VCS queries on: q is the result of get_vcs_info.
generate_vcs(project_name, desc, q, g1, use_glob, env) ==
    IF q.exc # "none"
    THEN Stop(Raise(q.exc), "query-vcs", use_glob, TRUE,
              [g1 EXCEPT !.queries = q.queries, !.vcs_info = q.info], env)
    ELSE generate_sources(verhel_generate_sources(project_name, desc, q.info, env),
                          [g1 EXCEPT !.queries = q.queries, !.vcs_info = q.info],
                          use_glob, TRUE, env)

\* Mutant: an empty backends list is not taken for "no backends".
NoBackends_nullOnly(backends_list) == backends_list = VNull

\* The negation of "backends_list is not None and len(backends_list) > 0".
NoBackends(backends_list) == backends_list = VNull \/ Len(backends_list.l) = 0

\* Mutant (second half): the backends steps, the change of directory and the
\* sources, after the VCS steps have observed g2.
generate_backends_vcsFirst(project_name, desc, vcs, backends_list, g2, use_glob, env) ==
    IF NoBackends(backends_list)
    THEN Stop(Ret(SUCCESS), "query-vcs", use_glob, vcs # VNull, g2, env)
    ELSE IF ~env.backends_load
    THEN Stop(Ret(FAILED_TO_LOAD_BACKENDS), "query-vcs", use_glob, vcs # VNull, g2, env)
    ELSE IF check_if_backends_exists(backends_list.l, env)
    THEN Stop(Ret(BACKEND_DOESNT_EXISTS), "query-vcs", use_glob, vcs # VNull, g2, env)
    ELSE IF DictGet(desc, "project.directory") # VNull
    THEN Stop(Raise("AttributeError"), "query-vcs", use_glob, vcs # VNull, g2, env)
    ELSE IF ~env.chdir_ok
    THEN Stop(Ret(FAILED_TO_ENTER_PROJECT_DIR), "query-vcs", use_glob, vcs # VNull, g2, env)
    ELSE generate_sources(verhel_generate_sources(project_name, desc, g2.vcs_info, env),
                          g2, use_glob, vcs # VNull, env)

\* Mutant: the repository check and the VCS queries are made right after the
\* check of the executable, before the backends are loaded and the directory
\* is changed.
generate_desc_vcsFirst(project_name, desc, vcs, backends_list, g1, use_glob, env) ==
    IF ~validate_version(desc)
    THEN Stop(Ret(VERSION_IS_NULL), "require-version", use_glob, FALSE, g1, env)
    ELSE IF vcs # VNull /\ ~env.frontends_load
    THEN Stop(Ret(FAILED_TO_LOAD_FRONTENDS), "load-frontends", use_glob, TRUE, g1, env)
    ELSE IF vcs # VNull /\ vcs.s \notin DOMAIN env.frontends
    THEN Stop(Ret(FRONTEND_DOESNT_EXISTS), "check-frontend", use_glob, TRUE, g1, env)
    ELSE IF vcs # VNull /\ ~env.exe_found
    THEN Stop(Ret(VERSION_CONTROL_NOT_INSTALLED), "check-exe", use_glob, TRUE, g1, env)
    ELSE IF vcs = VNull
    THEN generate_backends_vcsFirst(project_name, desc, vcs, backends_list, g1, use_glob,
                                    env)
    ELSE IF ~check_if_project_repo_exists(env.frontends[vcs.s], env)
    THEN Stop(Ret(REPO_DOESNT_EXISTS), "check-repo", use_glob, TRUE, g1, env)
    ELSE IF get_vcs_info(env.frontends[vcs.s], vcs.s, env).exc # "none"
    THEN Stop(Raise(get_vcs_info(env.frontends[vcs.s], vcs.s, env).exc), "query-vcs",
              use_glob, TRUE,
              [g1 EXCEPT !.queries = get_vcs_info(env.frontends[vcs.s], vcs.s, env).queries,
                         !.vcs_info = get_vcs_info(env.frontends[vcs.s], vcs.s, env).info],
              env)
    ELSE generate_backends_vcsFirst(
             project_name, desc, vcs, backends_list,
             [g1 EXCEPT !.queries = get_vcs_info(env.frontends[vcs.s], vcs.s, env).queries,
                        !.vcs_info = get_vcs_info(env.frontends[vcs.s], vcs.s, env).info],
             use_glob, env)

\* generate from validate_version on: desc is the project after the global
\* descriptor's values were applied, g1 the observation of it.
generate_desc(project_name, desc, vcs, backends_list, g1, use_glob, env) ==
    IF ~validate_version(desc)
    THEN Stop(Ret(VERSION_IS_NULL), "require-version", use_glob, FALSE, g1, env)
    ELSE IF vcs # VNull /\ ~env.frontends_load
    THEN Stop(Ret(FAILED_TO_LOAD_FRONTENDS), "load-frontends", use_glob, TRUE, g1, env)
    ELSE IF vcs # VNull /\ vcs.s \notin DOMAIN env.frontends
    THEN Stop(Ret(FRONTEND_DOESNT_EXISTS), "check-frontend", use_glob, TRUE, g1, env)
    ELSE IF vcs # VNull /\ ~env.exe_found
    THEN Stop(Ret(VERSION_CONTROL_NOT_INSTALLED), "check-exe", use_glob, TRUE, g1, env)
    ELSE IF NoBackends(backends_list)
    THEN Stop(Ret(SUCCESS), "check-exe", use_glob, vcs # VNull, g1, env)
    ELSE IF ~env.backends_load
    THEN Stop(Ret(FAILED_TO_LOAD_BACKENDS), "load-backends", use_glob, vcs # VNull, g1, env)
    ELSE IF check_if_backends_exists(backends_list.l, env)
    THEN Stop(Ret(BACKEND_DOESNT_EXISTS), "check-backends", use_glob, vcs # VNull, g1, env)
    ELSE IF DictGet(desc, "project.directory") # VNull
    THEN Stop(Raise("AttributeError"), "chdir", use_glob, vcs # VNull, g1, env)
    ELSE IF ~env.chdir_ok
    THEN Stop(Ret(FAILED_TO_ENTER_PROJECT_DIR), "chdir", use_glob, vcs # VNull, g1, env)
    ELSE IF vcs = VNull
    THEN generate_sources(verhel_generate_sources(project_name, desc, g1.vcs_info, env),
                          g1, use_glob, FALSE, env)
    ELSE IF ~check_if_project_repo_exists(env.frontends[vcs.s], env)
    THEN Stop(Ret(REPO_DOESNT_EXISTS), "check-repo", use_glob, TRUE, g1, env)
    ELSE generate_vcs(project_name, desc, get_vcs_info(env.frontends[vcs.s], vcs.s, env),
                      g1, use_glob, env)

\* generate from the validated store on: projects is the store after
\* use_global_desc_values (the store itself without --global-desc-name).
generate_projects(projects, project_name, use_glob, env) ==
    generate_desc(project_name, projects[project_name],
                  DictGet(projects[project_name], "frontend"),
                  DictGet(projects[project_name], "backends"),
                  [NoGen EXCEPT !.projects = projects, !.desc = projects[project_name]],
                  use_glob, env)

\* VerHel.generate: the result and the observations of the run.  glob_desc_name
\* is the --global-desc-name argument, "" when it is not given (None).
generate_handler(fs, st, project_name, glob_desc_name, env) ==
    IF fs # "ok"
    THEN Stop(Ret(FAILED_TO_LOAD_PROJECTS), "load-projects", FALSE, FALSE, NoGen, env)
    ELSE IF ProjectsGet(st, project_name) = VNull
    THEN Stop(Ret(PROJECT_DOESNT_EXISTS), "locate-project", FALSE, FALSE, NoGen, env)
    ELSE IF ~validate_project(st, project_name)
    THEN Stop(Ret(PROJECT_VALIDATION_FAILED), "validate-project", FALSE, FALSE, NoGen, env)
    ELSE IF glob_desc_name = "" THEN generate_projects(st, project_name, FALSE, env)
    ELSE IF ~validate_project(st, glob_desc_name)
    THEN Stop(Ret(PROJECT_VALIDATION_FAILED), "validate-global", TRUE, FALSE, NoGen, env)
    ELSE generate_projects(use_global_desc_values(st, project_name, glob_desc_name),
                           project_name, TRUE, env)

(***************************************************************************)
(* Bounds and the inputs drawn in the initial states and by the commands.  *)
(***************************************************************************)
MaxOps == 2              \* commands run one after the other
MaxBackends == 3         \* entries of a backends list under validation
MaxVariations == 1       \* fields in which a generated project departs from BaseDesc
MaxDeviations == 1       \* ways in which the environment of generate departs from EnvOK

Exit(ret, out) == [kind |-> "exit", ret |-> ret, out |-> out]
Timeout == [kind |-> "timeout", ret |-> 0, out |-> ""]
LaunchError == [kind |-> "error", ret |-> 0, out |-> ""]

\* An environment in which every step of generate succeeds; its backends file
\* describes a backend "c" beside "cpp" (the built-in buffer holds "cpp" alone).
\* fatal_if_bk_not_impl is TRUE unless --fatal-if-backend-not-impl is given (the
\* argument is a store_false flag).
EnvOK ==
    [frontends_load |-> TRUE, frontends |-> FRONTENDS_DESC, exe_found |-> TRUE,
     backends_load |-> TRUE, backends |-> [n \in {"cpp", "c"} |-> CppBackend],
     fatal_if_bk_not_impl |-> TRUE, chdir_ok |-> TRUE,
     run |-> [q \in QueryNames |->
                CASE q = "get.repo" -> Exit(0, ".git\n")
                  [] q = "get.commit_hash" -> Exit(0, "0a1b2c3d4e\n")
                  [] q = "get.short_hash" -> Exit(0, "0a1b2c\n")
                  [] q = "get.tag" -> Exit(0, "v1\n")
                  [] q = "get.branch" -> Exit(0, " main\n")
                  [] OTHER -> Exit(0, "42\n")],
     license_readable |-> TRUE, license_text |-> "MIT License\n\nCopyright me\n\n",
     build_info |-> [date |-> "2021-06-01", time |-> "12:00:00"],
     cwd |-> "/work", mkdir_fail |-> {}, write_fail |-> {}]

Deviations ==
    <<"frontends_file", "frontend_unknown", "exe", "backends_file", "not_fatal", "chdir",
      "repo_128", "repo_timeout", "repo_error", "tag_128", "tag_128_text", "branch_timeout",
      "hash_1", "count_text", "license", "license_empty", "write", "mkdir_first", "mkdir",
      "repo_128_chdir", "builtin_not_fatal", "builtin">>

Deviate(e, d) ==
    CASE d = "frontends_file" -> [e EXCEPT !.frontends_load = FALSE]
      [] d = "frontend_unknown" -> [e EXCEPT !.frontends = EmptyFcn]
      [] d = "exe" -> [e EXCEPT !.exe_found = FALSE]
      [] d = "backends_file" -> [e EXCEPT !.backends_load = FALSE]
      [] d = "not_fatal" -> [e EXCEPT !.fatal_if_bk_not_impl = FALSE]
      [] d = "chdir" -> [e EXCEPT !.chdir_ok = FALSE]
      [] d = "repo_128" -> [e EXCEPT !.run["get.repo"] = Exit(128, "")]
      [] d = "repo_timeout" -> [e EXCEPT !.run["get.repo"] = Timeout]
      [] d = "repo_error" -> [e EXCEPT !.run["get.repo"] = LaunchError]
      [] d = "tag_128" -> [e EXCEPT !.run["get.tag"] = Exit(128, "")]
      [] d = "tag_128_text" -> [e EXCEPT !.run["get.tag"] = Exit(128, "fatal\n")]
      [] d = "branch_timeout" -> [e EXCEPT !.run["get.branch"] = Timeout]
      [] d = "hash_1" -> [e EXCEPT !.run["get.commit_hash"] = Exit(1, "")]
      [] d = "count_text" -> [e EXCEPT !.run["get.commit_count"] = Exit(0, "n/a\n")]
      [] d = "license" -> [e EXCEPT !.license_readable = FALSE]
      [] d = "license_empty" -> [e EXCEPT !.license_text = ""]
      [] d = "write" -> [e EXCEPT !.write_fail = {"out/version.hpp"}]
      [] d = "mkdir_first" -> [e EXCEPT !.mkdir_fail = {"out/version.hpp"}]
      [] d = "mkdir" -> [e EXCEPT !.mkdir_fail = {"gen/v.h"}]
      [] d = "repo_128_chdir" ->
            [e EXCEPT !.run["get.repo"] = Exit(128, ""), !.chdir_ok = FALSE]
      [] d = "builtin_not_fatal" ->
            [e EXCEPT !.backends = BACKENDS_DESC, !.fatal_if_bk_not_impl = FALSE]
      [] OTHER -> [e EXCEPT !.backends = BACKENDS_DESC]

\* EnvOK with the deviations numbered in D applied in order.
RECURSIVE DeviateAll(_, _)
DeviateAll(e, D) ==
    IF D = {} THEN e
    ELSE DeviateAll(Deviate(e, Deviations[Min(D)]), D \ {Min(D)})

\* The subsets of S with at most k elements.
RECURSIVE SubsetsUpTo(_, _)
SubsetsUpTo(S, k) ==
    IF k = 0 THEN {{}}
    ELSE LET P == SubsetsUpTo(S, k - 1) IN P \cup {X \cup {e} : X \in P, e \in S}

Envs == {DeviateAll(EnvOK, D) : D \in SubsetsUpTo(1..Len(Deviations), MaxDeviations)}

\* A project that generates one file.
BaseDesc ==
    VObj([k \in EmptyKeys |->
            CASE k = "backends" -> VList(<<Entry("cpp", VStr("out/version.hpp"))>>)
              [] k = "exclude" -> VList(<< >>)
              [] k = "version.major" -> VInt(1)
              [] k = "version.minor" -> VInt(2)
              [] k = "version.patch" -> VInt(3)
              [] OTHER -> VNull])

Absent == [t |-> "absent"]

\* The ways a project under generate departs from BaseDesc: a key and its value,
\* or Absent for a key the project does not hold.
Variations ==
    << <<"version.major", VNull>>, <<"version.major", Absent>>,
       <<"version.patch", VNull>>, <<"version.pre_release", VStr("beta")>>,
       <<"frontend", VStr("git")>>, <<"frontend", VStr("svn")>>, <<"frontend", Absent>>,
       <<"backends", VNull>>, <<"backends", Absent>>, <<"backends", VList(<< >>)>>,
       <<"backends", VList(<<Entry("cpp", VStr("out/version.hpp")),
                             Entry("c", VStr("gen/v.h"))>>)>>,
       <<"backends", VList(<<Entry("cpp", VStr("out/version.hpp")),
                             Entry("cpp", VStr("gen/v.h"))>>)>>,
       <<"backends", VList(<<Entry("cpp", VStr("out/version.hpp")),
                             Entry("c", VStr("out/version.hpp"))>>)>>,
       <<"license.file", VStr("LICENSE")>>, <<"license.file", Absent>>,
       <<"license.spdx", VStr("MIT")>>, <<"license.spdx", Absent>>,
       <<"project.directory", VStr("sub")>>, <<"project.author", VStr("Ann")>>,
       <<"project.author", Absent>>, <<"project.name", VStr("App")>>,
       <<"exclude", VList(<<VStr("version.major"), VStr("vcs.name")>>)>>,
       <<"exclude", VNull>>, <<"project.company", VStr("Acme")>>,
       <<"extra", VInt(5)>> >>

Vary(d, v) ==
    IF v[2] = Absent
    THEN VObj([k \in (DOMAIN d.f) \ {v[1]} |-> d.f[k]])
    ELSE DictSet(d, v[1], v[2])

RECURSIVE VaryAll(_, _)
VaryAll(d, V) ==
    IF V = {} THEN d
    ELSE VaryAll(Vary(d, Variations[Min(V)]), V \ {Min(V)})

GenDescs == {VaryAll(BaseDesc, V) : V \in SubsetsUpTo(1..Len(Variations), MaxVariations)}

\* Global descriptors: one that sets some fields, one that does not validate.
GlobalDesc ==
    VObj([k \in EmptyKeys |->
            CASE k = "backends" -> VList(<<Entry("cpp", VStr("out/global.hpp"))>>)
              [] k = "exclude" -> VList(<<VStr("build.time")>>)
              [] k = "version.major" -> VInt(9)
              [] k = "version.pre_release" -> VStr("rc")
              [] k = "frontend" -> VStr("git")
              [] k = "license.spdx" -> VStr("MIT")
              [] k = "project.author" -> VStr("Glob")
              [] OTHER -> VNull])

GlobalDescs == {GlobalDesc, DictSet(GlobalDesc, "version.minor", VStr("x"))}

StoreOf(app, glob) ==
    [n \in {"app", "_Global"} |-> IF n = "app" THEN app ELSE glob]

GenStores ==
    {[n \in {"app"} |-> d] : d \in GenDescs}
        \cup {StoreOf(d, g) : d \in GenDescs, g \in GlobalDescs}

\* Entries of a backends list under validation: well formed ones that share
\* names and outputs, and malformed ones of each kind.
BackendEntries ==
    {Entry("cpp", VStr("a.hpp")), Entry("cpp", VStr("b.h")),
     Entry("c", VStr("a.hpp")), Entry("c", VStr("b.h")), Entry("rs", VStr("")),
     VObj(EmptyFcn),
     VObj([k \in {"cpp", "c"} |-> VStr("a.hpp")]),
     Entry("cpp", VNull), Entry("cpp", VInt(1)), VStr("cpp")}

BackendLists == UNION {[1..n -> BackendEntries] : n \in 0..MaxBackends}

ValidateStores == {[n \in {"app"} |-> DictSet(BaseDesc, "backends", VList(l))] : l \in BackendLists}

\* Keys outside the empty project's key set, the values they hold and the
\* projects that carry them under validation.
DanglingKeys == {"extra", "project.company", "version"}

DanglingValues == {VNull, VStr("Acme"), VInt(5), VBool(TRUE), VList(<< >>)}

DanglingStores ==
    {[n \in {"app"} |-> DictSet(d, k, v)] :
        d \in {BaseDesc, empty_project, DictSet(BaseDesc, "version.major", VStr("x"))},
        k \in DanglingKeys, v \in DanglingValues}

\* Projects of the store the commands run against.
MainDescs ==
    {BaseDesc, empty_project,
     DictSet(BaseDesc, "backends",
             VList(<<Entry("c", VStr("gen/v.h")), Entry("backends.x", VStr("out/x.hpp")),
                     Entry("cpp", VStr("out/version.hpp"))>>)),
     DictSet(BaseDesc, "backends", VNull),
     Vary(BaseDesc, <<"frontend", Absent>>),
     VStr("junk")}

MainStores == {[n \in {"app"} |-> d] : d \in MainDescs} \cup {StoreOf(BaseDesc, GlobalDesc)}

\* Environments of generate when it runs among the other commands.
MainEnvs == {EnvOK, Deviate(EnvOK, "exe"), Deviate(EnvOK, "write")}

ProjectArgs == {"app", "lib"}
GlobArgs == {"", "_Global"}
PropertyNames ==
    {"backends.cpp", "backends.c", "backends.backends.x", "backends.frontend",
     "version.major", "version.patch", "frontend", "license.file", "bogus",
     "backends.", "backends", "exclude"}
NewValues == {"out/v.hpp", "null", "7"}

(***************************************************************************)
(* The commands.  `last' records the command that ran last and how it      *)
(* ended; `gen' records what the last generate did.                        *)
(***************************************************************************)
NoCommand ==
    [op |-> "none", project |-> "", prop |-> "", value |-> "", glob |-> "",
     save |-> "none", code |-> 0, exc |-> "none", out |-> << >>]

\* One more command runs.
Count == nops' = nops + 1

\* The projects file after a command that may save it: h is its handler's result.
Saved(h, outcome) ==
    IF h.save THEN save_projects(fileState, store, h.projects, outcome)
    ELSE [fileState |-> fileState, store |-> store, ok |-> TRUE]

\* What such a command leaves in `last': s is Saved(h, outcome).
Saving(op, project, prop, value, h, s, outcome) ==
    [NoCommand EXCEPT
        !.op = op, !.project = project, !.prop = prop, !.value = value,
        !.save = (IF ~h.save THEN "none" ELSE IF s.ok THEN "saved" ELSE outcome),
        !.code = (IF s.ok THEN h.code ELSE FAILED_TO_SAVE_PROJECTS),
        !.exc = h.exc]

\* What a command that only reads leaves in `last': h is its handler's result.
Reading(op, project, prop, h) ==
    [NoCommand EXCEPT !.op = op, !.project = project, !.prop = prop,
                      !.code = h.code, !.exc = h.exc, !.out = h.out]

init ==
    nops < MaxOps /\ \E project_name \in ProjectArgs, projects_file \in {"", "verhel.json"},
       outcome \in SaveOutcomes :
        \E h \in {init_handler(fileState, store, project_name, projects_file)} :
            \E s \in {Saved(h, outcome)} :
                /\ Count
                /\ fileState' = s.fileState
                /\ store' = s.store
                /\ last' = Saving("init", project_name, projects_file, "", h, s, outcome)
                /\ gen' = NoGen

\* Mutant: generate saves the projects it holds in memory when it returns.
generate_in_persists(E) ==
    nops < MaxOps /\ \E project_name \in ProjectArgs, glob_desc_name \in GlobArgs, env \in E :
        \E h \in {generate_handler(fileState, store, project_name, glob_desc_name, env)} :
            /\ Count
            /\ last' = [NoCommand EXCEPT !.op = "generate", !.project = project_name,
                                         !.glob = glob_desc_name,
                                         !.code = h.res.code, !.exc = h.res.exc]
            /\ gen' = h.gen
            /\ store' = IF h.gen.projects # EmptyFcn THEN h.gen.projects ELSE store
            /\ UNCHANGED fileState

\* generate in an environment drawn from E.
generate_in(E) ==
    nops < MaxOps /\ \E project_name \in ProjectArgs, glob_desc_name \in GlobArgs, env \in E :
        \E h \in {generate_handler(fileState, store, project_name, glob_desc_name, env)} :
            /\ Count
            /\ last' = [NoCommand EXCEPT !.op = "generate", !.project = project_name,
                                         !.glob = glob_desc_name,
                                         !.code = h.res.code, !.exc = h.res.exc]
            /\ gen' = h.gen
            /\ UNCHANGED <<fileState, store>>

generate == generate_in(Envs)

delete ==
    nops < MaxOps /\ \E project_name \in ProjectArgs, outcome \in SaveOutcomes :
        \E h \in {delete_handler(fileState, store, project_name)} :
            \E s \in {Saved(h, outcome)} :
                /\ Count
                /\ fileState' = s.fileState
                /\ store' = s.store
                /\ last' = Saving("delete", project_name, "", "", h, s, outcome)
                /\ gen' = NoGen

info ==
    nops < MaxOps /\ \E project_name \in ProjectArgs :
        /\ Count
        /\ last' = Reading("info", project_name, "",
                           info_handler(fileState, store, project_name))
        /\ gen' = NoGen
        /\ UNCHANGED <<fileState, store>>

validate ==
    nops < MaxOps /\ \E project_name \in ProjectArgs :
        /\ Count
        /\ last' = Reading("validate", project_name, "",
                           validate_handler(fileState, store, project_name))
        /\ gen' = NoGen
        /\ UNCHANGED <<fileState, store>>

get ==
    nops < MaxOps /\ \E project_name \in ProjectArgs, property_name \in PropertyNames :
        /\ Count
        /\ last' = Reading("get", project_name, property_name,
                           get_handler(fileState, store, project_name, property_name))
        /\ gen' = NoGen
        /\ UNCHANGED <<fileState, store>>

set ==
    nops < MaxOps /\ \E project_name \in ProjectArgs, property_name \in PropertyNames,
       new_value \in NewValues, outcome \in SaveOutcomes :
        \E h \in {set_handler(fileState, store, project_name, property_name, new_value)} :
            \E s \in {Saved(h, outcome)} :
                /\ Count
                /\ fileState' = s.fileState
                /\ store' = s.store
                /\ last' = Saving("set", project_name, property_name, new_value, h, s,
                                  outcome)
                /\ gen' = NoGen

list_projects ==
    /\ nops < MaxOps
    /\ Count
    /\ last' = Reading("list-projects", "", "", list_projects_handler(fileState))
    /\ gen' = NoGen
    /\ UNCHANGED <<fileState, store>>

list_frontends ==
    nops < MaxOps /\ \E loads \in BOOLEAN :
        /\ Count
        /\ last' = Reading("list-frontends", "", "",
                           list_descriptors_handler(loads, FAILED_TO_LOAD_FRONTENDS))
        /\ gen' = NoGen
        /\ UNCHANGED <<fileState, store>>

list_backends ==
    nops < MaxOps /\ \E loads \in BOOLEAN :
        /\ Count
        /\ last' = Reading("list-backends", "", "",
                           list_descriptors_handler(loads, FAILED_TO_LOAD_BACKENDS))
        /\ gen' = NoGen
        /\ UNCHANGED <<fileState, store>>

Start == last = NoCommand /\ gen = NoGen /\ nops = 0

Init ==
    /\ \/ fileState = "ok" /\ store \in MainStores
       \/ fileState \in {"missing", "malformed"} /\ store = EmptyFcn
    /\ Start

Next ==
    \/ init
    \/ generate_in(MainEnvs)
    \/ delete
    \/ info
    \/ validate
    \/ get
    \/ set
    \/ list_projects
    \/ list_frontends
    \/ list_backends

Spec == Init /\ [][Next]_vars

\* One invocation of generate, over the projects, global descriptors and
\* environments above (generate leaves the projects file as it found it).
InitGenerate == fileState = "ok" /\ store \in GenStores /\ Start

NextGenerate == last = NoCommand /\ generate

SpecGenerate == InitGenerate /\ [][NextGenerate]_vars

\* validate alone, over every backends list of at most MaxBackends entries and
\* over the projects with a dangling key.
InitValidate == fileState = "ok" /\ store \in (ValidateStores \cup DanglingStores) /\ Start

NextValidate == validate

SpecValidate == InitValidate /\ [][NextValidate]_vars

(***************************************************************************)
(* Properties.                                                             *)
(***************************************************************************)
Reached(step) == \E i \in 1..Len(gen.steps) : gen.steps[i] = step

\* The stored project the last command named, and its backends list.
Project == ProjectsGet(store, last.project)
BackendsOf(desc) ==
    IF TypeOf(desc) = "obj" /\ TypeOf(DictGet(desc, "backends")) = "list"
    THEN DictGet(desc, "backends").l ELSE << >>

\* A backends entry of the documented shape: one key, a string value.
WellFormed(bk) ==
    /\ TypeOf(bk) = "obj"
    /\ Cardinality(DOMAIN bk.f) = 1
    /\ TypeOf(bk.f[FirstKey(bk)]) = "str"

SameName(a, b) == WellFormed(a) /\ WellFormed(b) /\ FirstKey(a) = FirstKey(b)
SameOutput(a, b) ==
    WellFormed(a) /\ WellFormed(b) /\ a.f[FirstKey(a)] = b.f[FirstKey(b)]

HasDuplicate(l) ==
    \E i, j \in 1..Len(l) : i # j /\ (SameName(l[i], l[j]) \/ SameOutput(l[i], l[j]))

\* "backends.B" for a non-empty B.
IsBackendProperty(prop) == startswith(prop, "backends.") /\ Len(prop) > Len("backends.")
BackendName(prop) == SubSeq(prop, Len("backends.") + 1, Len(prop))
HasEntryFor(l, B) == \E i \in 1..Len(l) : WellFormed(l[i]) /\ FirstKey(l[i]) = B
PositionOf(l, B) == Min({i \in 1..Len(l) : WellFormed(l[i]) /\ FirstKey(l[i]) = B})

SaveFailed(l) == l.save \in {"open_failed", "write_failed"}

\* C1: after set(project, "backends.B", V) with V other than "null" on an
\* existing project, get(project, "backends.B") prints V, and both commands end
\* with SUCCESS.
C1_SetThenGet ==
    [][(/\ last.op = "set"
        /\ IsBackendProperty(last.prop)
        /\ last.value # "null"
        /\ ~SaveFailed(last)
        /\ fileState = "ok"
        /\ validate_project(store, last.project)
        /\ last'.op = "get"
        /\ last'.project = last.project
        /\ last'.prop = last.prop)
       => (/\ last.code = SUCCESS /\ last.exc = "none"
           /\ last'.code = SUCCESS /\ last'.exc = "none"
           /\ last'.out = <<last.value>>)]_vars

\* C2: on a project whose backends list has an entry for B, set(project,
\* "backends.B", "null") ends with SUCCESS and leaves the list without that
\* entry, the other entries in their order; a get(project, "backends.B") after
\* it reports BACKEND_DOESNT_EXISTS.
C2_SetNullRemoves ==
    [][/\ (/\ last'.op = "set"
           /\ IsBackendProperty(last'.prop)
           /\ last'.value = "null"
           /\ ~SaveFailed(last')
           /\ fileState = "ok"
           /\ validate_project(store, last'.project)
           /\ HasEntryFor(BackendsOf(store[last'.project]), BackendName(last'.prop)))
          => (/\ last'.code = SUCCESS /\ last'.exc = "none"
              /\ BackendsOf(store'[last'.project]) =
                    RemoveAt(BackendsOf(store[last'.project]),
                             PositionOf(BackendsOf(store[last'.project]),
                                        BackendName(last'.prop))))
       /\ (/\ last.op = "set"
           /\ IsBackendProperty(last.prop)
           /\ last.value = "null"
           /\ last.code = SUCCESS /\ last.exc = "none"
           /\ last'.op = "get"
           /\ last'.project = last.project
           /\ last'.prop = last.prop)
          => (last'.code = BACKEND_DOESNT_EXISTS /\ last'.exc = "none")]_vars

\* C3: validate fails with PROJECT_VALIDATION_FAILED for every project whose
\* backends list has two entries of the same name or of the same output path,
\* wherever the two entries are in the list.
C3_DuplicatesFail ==
    (last.op = "validate" /\ HasDuplicate(BackendsOf(Project)))
        => (last.code = PROJECT_VALIDATION_FAILED /\ last.exc = "none")

\* A list of three well formed entries was validated and rejected, whose first
\* and last entry share the output path and nothing else is shared.
C3_Witness ==
    /\ last.op = "validate"
    /\ last.code = PROJECT_VALIDATION_FAILED
    /\ LET l == BackendsOf(Project)
       IN  /\ Len(l) = 3
           /\ \A i \in 1..3 : WellFormed(l[i])
           /\ SameOutput(l[1], l[3])
           /\ ~SameName(l[1], l[3])
           /\ \A i \in {1, 3} : ~SameName(l[i], l[2]) /\ ~SameOutput(l[i], l[2])

\* C4: validate fails with PROJECT_VALIDATION_FAILED whenever an element of the
\* backends list is no object with exactly one key, or the value of its key is
\* null or no string.
C4_MalformedFail ==
    (last.op = "validate" /\ \E i \in 1..Len(BackendsOf(Project)) :
                                ~WellFormed(BackendsOf(Project)[i]))
        => (last.code = PROJECT_VALIDATION_FAILED /\ last.exc = "none")

\* A list was validated and rejected whose only defect is the null value of
\* its single entry.
C4_Witness ==
    /\ last.op = "validate"
    /\ last.code = PROJECT_VALIDATION_FAILED
    /\ LET l == BackendsOf(Project)
       IN  /\ Len(l) = 1
           /\ TypeOf(l[1]) = "obj"
           /\ Cardinality(DOMAIN l[1].f) = 1
           /\ l[1].f[FirstKey(l[1])] = VNull

\* The VCS steps of generate.
VcsSteps == {"load-frontends", "check-frontend", "check-exe", "check-repo", "query-vcs"}

\* The "var" writes of the files of the last generate, as <<path, key>> pairs.
EmittedVars ==
    UNION {{<<gen.files[i].path, gen.files[i].chunks[j].key>> :
                j \in {n \in 1..Len(gen.files[i].chunks) :
                          gen.files[i].chunks[n].kind = "var"}} :
           i \in 1..Len(gen.files)}

NothingGenerated == gen.files = << >> /\ gen.rendered = << >>

\* C5: a generate run that ends with a result other than SUCCESS has rendered
\* and written no backend output; whatever was rendered or written in a run
\* followed the successful end of every earlier stage; and a project whose
\* backends list has a duplicate name or output path is never generated from.
C5_OutputOnlyAfterAllStages ==
    last.op = "generate" =>
        /\ (last.exc = "none" /\ last.code # SUCCESS) => NothingGenerated
        /\ ~NothingGenerated =>
              /\ Reached("generate-sources")
              /\ validate_project(gen.projects, last.project)
              /\ validate_version(gen.desc)
        /\ HasDuplicate(BackendsOf(Project)) => NothingGenerated

\* A generate run went as far as the repository check with backends to
\* generate, ended with REPO_DOESNT_EXISTS, and wrote nothing.
C5_Witness ==
    /\ last.op = "generate"
    /\ last.code = REPO_DOESNT_EXISTS
    /\ last.exc = "none"
    /\ Reached("check-repo")
    /\ Len(BackendsOf(gen.desc)) > 0
    /\ NothingGenerated

\* C6: use_global_desc_values with an existing global descriptor G leaves the
\* project with the keys it had, each non-null value as it was and each null
\* value replaced by G's value for the key (null when G has none); G and the
\* other projects are unchanged.
C6_GlobalFillsNullOnly ==
    (last.op = "generate" /\ Reached("apply-global")) =>
        LET P == store[last.project]
            G == store[last.glob]
            R == gen.projects[last.project]
        IN  /\ DOMAIN gen.projects = DOMAIN store
            /\ DOMAIN R.f = DOMAIN P.f
            /\ \A k \in DOMAIN P.f :
                  R.f[k] = IF P.f[k] # VNull THEN P.f[k] ELSE DictGet(G, k)
            /\ \A n \in (DOMAIN store) \ {last.project} : gen.projects[n] = store[n]

\* The global descriptor was applied to a project: a null field took the
\* global's non-null value, and a non-null field kept its value although the
\* global has another one.
C6_Witness ==
    /\ last.op = "generate"
    /\ Reached("apply-global")
    /\ \E k \in DOMAIN store[last.project].f :
          /\ store[last.project].f[k] = VNull
          /\ DictGet(store[last.glob], k) # VNull
          /\ gen.projects[last.project].f[k] = DictGet(store[last.glob], k)
    /\ \E k \in DOMAIN store[last.project].f :
          /\ store[last.project].f[k] # VNull
          /\ DictGet(store[last.glob], k) \notin {VNull, store[last.project].f[k]}
          /\ gen.projects[last.project].f[k] = store[last.project].f[k]

\* C7: generate on a project that lacks key k ends as generate ends on the same
\* project with k present and null: same exit status, same exception, same
\* cooked values, same files.
C7_AbsentLikeNull ==
    (last.op = "generate" /\ TypeOf(Project) = "obj") =>
        \A k \in EmptyKeys \ DOMAIN Project.f :
            \A h \in {generate_handler(fileState,
                                       [store EXCEPT ![last.project] = DictSet(@, k, VNull)],
                                       last.project, last.glob, gen.env)} :
                /\ h.res.code = last.code
                /\ h.res.exc = last.exc
                /\ h.gen.cooked = gen.cooked
                /\ h.gen.files = gen.files

\* C8: every command ends with one of the results of ExitCodes, and no
\* exception other than VerHelError leaves it.
C8_TypedResult == last.exc = "none" /\ last.code \in ExitCodes

\* C9: generate on a project whose frontend is null enters no VCS step, runs no
\* query, cooks null for every vcs.* key and emits no VCS variable.
C9_NoFrontendNoVcs ==
    (/\ last.op = "generate"
     /\ Reached("generate-sources")
     /\ last.exc = "none"
     /\ DictGet(gen.desc, "frontend") = VNull)
        => /\ \A step \in VcsSteps : ~Reached(step)
           /\ gen.queries = << >>
           /\ \A k \in VcsKeys : gen.cooked[k] = VNull
           /\ \A e \in EmittedVars : e[2] \notin VcsKeys

\* How the command of query q ended in the last generate, and whether its exit
\* code is one the frontend accepts.
Ran(q) == gen.env.run[q]
Accepted(q) ==
    /\ Ran(q).kind = "exit"
    /\ Ran(q).ret \in gen.env.frontends[gen.vcs_info.f["name"].s].cmds[q].ret_codes

\* The VCS queries of the last generate ran, and get.tag ended with an accepted
\* exit code other than 0.
TagAcceptedNonZero ==
    /\ last.op = "generate"
    /\ Reached("query-vcs")
    /\ last.exc = "none"
    /\ Accepted("get.tag")
    /\ Ran("get.tag").ret # 0

Interpretable(q) ==
    /\ Accepted(q)
    /\ q = "get.commit_count" => int(strip(Ran(q).out)).ok

\* The value a query resolves to when its output can be interpreted.
Resolved(q) ==
    IF q = "get.commit_count" THEN VInt(int(strip(Ran(q).out)).value)
    ELSE VStr(strip(Ran(q).out))

\* C11: in the VCS query step of generate every one of the five queries is run;
\* a query that times out, cannot be launched, exits with a code that is not
\* accepted or prints what cannot be interpreted leaves its own field null, the
\* other fields are resolved, and the run goes on with the result map.
C11_QueriesIndependent ==
    (last.op = "generate" /\ Reached("query-vcs")) =>
        /\ gen.queries = VcsQueryOrder
        /\ \A i \in 1..Len(VcsQueryOrder) :
              gen.vcs_info.f[VcsField(VcsQueryOrder[i])] =
                 IF Interpretable(VcsQueryOrder[i]) THEN Resolved(VcsQueryOrder[i])
                 ELSE VNull
        /\ last.exc # "ValueError"
        /\ Reached("generate-sources")

\* The last generate got as far as the version check and passed it: the project
\* was found and validated, and no version part is null after the fallback.
VersionPassed ==
    /\ last.op = "generate"
    /\ Reached("require-version")
    /\ validate_version(gen.desc)

\* The frontend steps of the last generate had nothing to fail on: the project
\* names no frontend, or the frontends loaded, hold the one it names, and the
\* executable was found.
FrontendReady ==
    LET f == DictGet(gen.desc, "frontend")
    IN  \/ f = VNull
        \/ /\ gen.env.frontends_load
           /\ f.s \in DOMAIN gen.env.frontends
           /\ gen.env.exe_found

\* C12 (as the code has it): for a project that passes validation and the
\* version check, whose backends list is empty, null or absent, and whose
\* frontend (if it names one) is loaded, known and installed, generate returns
\* SUCCESS, writes no file, loads no backends and does not change the directory.
C12_NoBackendsNoOp ==
    (VersionPassed /\ BackendsOf(gen.desc) = << >> /\ FrontendReady) =>
        /\ last.code = SUCCESS /\ last.exc = "none"
        /\ NothingGenerated
        /\ ~Reached("load-backends")
        /\ ~Reached("chdir")

\* A project with an empty backends list that took its frontend from the global
\* descriptor: the frontend steps ran, then generate ended with SUCCESS without
\* entering the repository check or the directory.
C12_Witness ==
    /\ VersionPassed
    /\ DictGet(gen.desc, "backends") = VList(<< >>)
    /\ DictGet(gen.desc, "frontend") # VNull
    /\ Reached("check-exe")
    /\ last.code = SUCCESS
    /\ ~Reached("chdir")
    /\ NothingGenerated

\* C12 (as stated): for a project that passes validation and the version check
\* and whose backends list is empty, null or absent, generate returns SUCCESS,
\* writes no file and does not change the directory.
C12_NoBackendsAlwaysSuccess ==
    (VersionPassed /\ BackendsOf(gen.desc) = << >>) =>
        /\ last.code = SUCCESS /\ last.exc = "none"
        /\ NothingGenerated
        /\ ~Reached("chdir")

\* The backend names of a validated backends list, in its order.
NamesOf(l) == [i \in 1..Len(l) |-> FirstKey(l[i])]

\* The output paths of the entries of l whose backend is implemented.
RECURSIVE KnownOutputs(_)
KnownOutputs(l) ==
    IF l = << >> THEN << >>
    ELSE (IF FirstKey(Head(l)) \in DOMAIN gen.env.backends
          THEN <<Head(l).f[FirstKey(Head(l))].s>> ELSE << >>) \o KnownOutputs(Tail(l))

\* The last generate looked the project's backends up, and one of them has no
\* implementation in the backends it loaded.
MissingBackend ==
    /\ last.op = "generate"
    /\ Reached("check-backends")
    /\ \E i \in 1..Len(BackendsOf(gen.desc)) :
          FirstKey(BackendsOf(gen.desc)[i]) \notin DOMAIN gen.env.backends

C14_WriteFailuresIndependent ==
    (last.op = "generate" /\ Reached("generate-sources") /\ gen.cooked # EmptyFcn) =>
        LET l == BackendsOf(gen.desc)
            Known(n) == n \in DOMAIN gen.env.backends
            Writable(o) == o \notin gen.env.write_fail \cup gen.env.mkdir_fail
        IN  /\ last.exc = "none" /\ last.code = SUCCESS
            /\ gen.rendered = SelectSeq(NamesOf(l), Known)
            /\ [i \in 1..Len(gen.files) |-> gen.files[i].path] =
                   SelectSeq(KnownOutputs(l), Writable)
            /\ gen.num_success = Len(gen.files)

\* s holds sub as a substring.
Contains(s, sub) ==
    \E i \in 1..(Len(s) - Len(sub) + 1) : SubSeq(s, i, i + Len(sub) - 1) = sub

\* The exclude list of the generated project, empty when it has none.
ExcludeList ==
    IF TypeOf(gen.desc) = "obj" /\ TypeOf(DictGet(gen.desc, "exclude")) = "list"
    THEN DictGet(gen.desc, "exclude").l ELSE << >>

\* key is an element of the exclude list of the generated project.
Excluded(key) == \E j \in 1..Len(ExcludeList) : ExcludeList[j] = VStr(key)

\* The keys of the format lines of file i of the last generate, in their order.
VarKeysOf(i) ==
    LET IsVar(c) == c.kind = "var"
        vars_i == SelectSeq(gen.files[i].chunks, IsVar)
    IN  [j \in 1..Len(vars_i) |-> vars_i[j].key]

\* The keys of the var_map of the backend of file i, in their order.
MapKeysOf(i) ==
    LET vm == gen.env.backends[gen.files[i].backend].var_map
    IN  [j \in 1..Len(vm) |-> vm[j][1]]

\* C15: every written file holds the format line of a var_map entry exactly
\* when the entry's key is not excluded and its cooked value is not null, in
\* the order of var_map; no format line holds the text None or null for a
\* value.
C15_EmittedIffNotExcludedNotNull ==
    last.op = "generate" =>
        \A i \in 1..Len(gen.files) :
            LET Emitted(k) == ~Excluded(k) /\ gen.cooked[k] # VNull
            IN  /\ VarKeysOf(i) = SelectSeq(MapKeysOf(i), Emitted)
                /\ \A j \in 1..Len(gen.files[i].chunks) :
                      gen.files[i].chunks[j].kind = "var" =>
                         \A w \in {"None", "NONE", "none", "null", "NULL"} :
                            ~Contains(gen.files[i].chunks[j].text, w)

\* A file was written for a project that excludes version.major, which has a
\* value, and has no tag: the file holds neither line, and holds the line of
\* version.minor.
C15_Witness ==
    /\ last.op = "generate"
    /\ Len(gen.files) > 0
    /\ Excluded("version.major") /\ gen.cooked["version.major"] # VNull
    /\ ~Excluded("vcs.tag") /\ gen.cooked["vcs.tag"] = VNull
    /\ \A j \in 1..Len(VarKeysOf(1)) : VarKeysOf(1)[j] \notin {"version.major", "vcs.tag"}
    /\ \E j \in 1..Len(VarKeysOf(1)) : VarKeysOf(1)[j] = "version.minor"

VersionParts == {"version.major", "version.minor", "version.patch"}

\* The steps of generate that follow the version check.
StepsAfterVersion ==
    {"load-frontends", "check-frontend", "check-exe", "load-backends", "check-backends",
     "chdir", "check-repo", "query-vcs", "generate-sources"}

\* C16: a generate run that gets to the version check ends with VERSION_IS_NULL
\* exactly when version.major, version.minor or version.patch of the project is
\* null after the global fallback; a null part of the stored project that the
\* named global descriptor supplies counts with the global's value; and a run
\* that ends with VERSION_IS_NULL has entered no later step and written nothing.
C16_VersionRequired ==
    (last.op = "generate" /\ Reached("require-version")) =>
        /\ (last.code = VERSION_IS_NULL /\ last.exc = "none")
              <=> (\E k \in VersionParts : DictGet(gen.desc, k) = VNull)
        /\ Reached("apply-global") =>
              \A k \in VersionParts \cap DOMAIN store[last.project].f :
                 store[last.project].f[k] = VNull =>
                    DictGet(gen.desc, k) = DictGet(store[last.glob], k)
        /\ ~Reached("apply-global") => gen.desc = store[last.project]
        /\ last.code = VERSION_IS_NULL =>
              /\ \A step \in StepsAfterVersion : ~Reached(step)
              /\ NothingGenerated

\* The stored project has a null version.major, the global descriptor supplied
\* 9, and the run passed the version check and wrote a file.
C16_Witness ==
    /\ last.op = "generate"
    /\ Reached("apply-global")
    /\ DictGet(store[last.project], "version.major") = VNull
    /\ "version.major" \in DOMAIN store[last.project].f
    /\ DictGet(gen.desc, "version.major") = VInt(9)
    /\ last.code = SUCCESS
    /\ Len(gen.files) > 0

\* C17: the cooked version.string is "{major}.{minor}.{patch}-{pre_release}"
\* when the pre-release of the project is not null, and "{major}.{minor}.{patch}"
\* with version.pre_release cooked to the empty string when it is null; 1, 2, 3
\* without a pre-release gives "1.2.3" and with "beta" gives "1.2.3-beta".
C17_VersionString ==
    (last.op = "generate" /\ gen.cooked # EmptyFcn) =>
        LET d == gen.desc
            pre == DictGet(d, "version.pre_release")
            base == IntStr(d.f["version.major"].i) \o "." \o IntStr(d.f["version.minor"].i)
                    \o "." \o IntStr(d.f["version.patch"].i)
            is123 == /\ d.f["version.major"] = VInt(1) /\ d.f["version.minor"] = VInt(2)
                     /\ d.f["version.patch"] = VInt(3)
        IN  /\ pre # VNull =>
                  /\ gen.cooked["version.string"] = VStr(base \o "-" \o pre.s)
                  /\ gen.cooked["version.pre_release"] = pre
            /\ pre = VNull =>
                  /\ gen.cooked["version.string"] = VStr(base)
                  /\ gen.cooked["version.pre_release"] = VStr("")
            /\ (is123 /\ pre = VNull) => gen.cooked["version.string"] = VStr("1.2.3")
            /\ (is123 /\ pre = VStr("beta")) =>
                  gen.cooked["version.string"] = VStr("1.2.3-beta")

\* A project with version 1, 2, 3 and pre-release "beta" was cooked to
\* "1.2.3-beta", and its first file holds the line of the version string
\* (whose string format converts the value with !u).
C17_Witness ==
    /\ last.op = "generate"
    /\ gen.cooked # EmptyFcn
    /\ DictGet(gen.desc, "version.pre_release") = VStr("beta")
    /\ gen.cooked["version.string"] = VStr("1.2.3-beta")
    /\ Len(gen.files) > 0
    /\ \E j \in 1..Len(gen.files[1].chunks) :
          /\ gen.files[1].chunks[j].key = "version.string"
          /\ Contains(gen.files[1].chunks[j].text, "\"1.2.3-BETA\"")

\* The commands other than set, delete and init.
ReadOnlyOps ==
    {"generate", "validate", "info", "get", "list-projects", "list-frontends",
     "list-backends"}

\* C18: generate, validate, info, get, list_projects, list_frontends and
\* list_backends never write the projects file: its state and the store it
\* holds are the same before and after each of them, so the values generate
\* copies from the global descriptor are never persisted.
C18_OnlySetDeleteInitWrite ==
    [][last'.op \in ReadOnlyOps => (fileState' = fileState /\ store' = store)]_vars

\* generate applied the global descriptor: the project it holds in memory
\* differs from the project of the store.
C18_Witness ==
    /\ last.op = "generate"
    /\ Reached("apply-global")
    /\ last.project \in DOMAIN store
    /\ last.project \in DOMAIN gen.projects
    /\ gen.projects[last.project] # store[last.project]

\* The store whose project `name` has lost the key `key`.
WithoutKey(st, name, key) ==
    [n \in DOMAIN st |->
        IF n = name THEN VObj([k \in (DOMAIN st[n].f) \ {key} |-> st[n].f[k]]) ELSE st[n]]

\* C19: a key of the project that is not in the empty project's key set never
\* changes the result of validate, whatever its value: the command ends as it
\* ends for the project without that key.
C19_DanglingNeverFails ==
    (last.op = "validate" /\ TypeOf(Project) = "obj") =>
        \A key \in DanglingProperties(Project) :
            validate_handler(fileState, WithoutKey(store, last.project, key),
                             last.project).code = last.code

\* The frontend of the generated project, null when it has none.
FrontendOf == IF TypeOf(gen.desc) = "obj" THEN DictGet(gen.desc, "frontend") ELSE VNull

\* The codes of the backends steps and of the change of directory.
BackendStepCodes ==
    {FAILED_TO_LOAD_BACKENDS, BACKEND_DOESNT_EXISTS, FAILED_TO_ENTER_PROJECT_DIR}

\* The backends steps and the change of directory of the last run succeeded.
BackendStepsPassed ==
    /\ TypeOf(DictGet(gen.desc, "backends")) = "list"
    /\ Len(DictGet(gen.desc, "backends").l) > 0
    /\ gen.env.backends_load
    /\ ~check_if_backends_exists(DictGet(gen.desc, "backends").l, gen.env)
    /\ DictGet(gen.desc, "project.directory") = VNull
    /\ gen.env.chdir_ok

DefaultedFields ==
    {<<"project.name", "project.name">>, <<"project.author", "project.author">>,
     <<"project.license", "license.spdx">>, <<"project.copyright", "project.copyright">>,
     <<"project.company", "project.company">>,
     <<"project.description", "project.description">>,
     <<"project.directory", "project.directory">>, <<"vcs.name", "frontend">>}

\* The hard-coded default of a cooked field: the name of the project for
\* project.name, the default project's value for the others.
DefaultOf(f) ==
    IF f[1] = "project.name" THEN VStr(last.project) ELSE DictGet(default_project, f[2])

\* C21: in a generate run that cooks, a string field that is not null in the
\* stored project is cooked unchanged; a field the project holds as null and
\* the applied global descriptor holds as non-null is cooked with the global's
\* value; the default is cooked exactly when the field is still null after the
\* global descriptor was applied.
C21_DefaultAfterGlobal ==
    (last.op = "generate" /\ gen.cooked # EmptyFcn) =>
        \A f \in DefaultedFields :
            LET P == DictGet(Project, f[2])
                G == IF Reached("apply-global")
                     THEN DictGet(store[last.glob], f[2]) ELSE VNull
                after == DictGet(gen.desc, f[2])
            IN  /\ P # VNull => gen.cooked[f[1]] = P
                /\ (f[2] \in DOMAIN Project.f /\ P = VNull /\ G # VNull) =>
                      gen.cooked[f[1]] = G
                /\ after = VNull => gen.cooked[f[1]] = DefaultOf(f)
                /\ after # VNull => gen.cooked[f[1]] = after

\* A run with the global descriptor cooked the global's author for the null
\* author of the project, the project's own non-null license, and the
\* defaults for the fields that are null in both.
C21_Witness ==
    /\ last.op = "generate"
    /\ gen.cooked # EmptyFcn
    /\ Reached("apply-global")
    /\ "project.author" \in DOMAIN Project.f
    /\ Project.f["project.author"] = VNull
    /\ gen.cooked["project.author"] = VStr("Glob")
    /\ DictGet(Project, "license.spdx") = VStr("MIT")
    /\ gen.cooked["project.license"] = VStr("MIT")
    /\ DictGet(gen.desc, "project.copyright") = VNull
    /\ gen.cooked["project.copyright"] = VStr("")
    /\ gen.cooked["project.name"] = VStr(last.project)

\* The get.repo command of the last run ended with an exit code that its
\* frontend accepts (it neither timed out nor failed to start).
RepoCommandAccepted ==
    LET o == gen.env.run["get.repo"]
    IN  /\ o.kind = "exit"
        /\ o.ret \in gen.env.frontends[FrontendOf.s].cmds["get.repo"].ret_codes

\* C22: a generate run that makes the repository check ends with
\* REPO_DOESNT_EXISTS whenever the get.repo command exits with a code outside
\* its accepted codes, times out or cannot be launched, and then no VCS query
\* was executed and nothing was generated; it passes the check otherwise, and
\* REPO_DOESNT_EXISTS has no other origin.
C22_RepoCheckFatal ==
    last.op = "generate" =>
        /\ (Reached("check-repo") /\ ~RepoCommandAccepted) =>
              /\ last.code = REPO_DOESNT_EXISTS /\ last.exc = "none"
              /\ gen.queries = << >>
              /\ ~Reached("query-vcs")
              /\ NothingGenerated
        /\ (Reached("check-repo") /\ RepoCommandAccepted) =>
              /\ Reached("query-vcs")
              /\ ~(last.code = REPO_DOESNT_EXISTS /\ last.exc = "none")
        /\ (last.code = REPO_DOESNT_EXISTS /\ last.exc = "none") => Reached("check-repo")

\* The repository check was made with a get.repo command that timed out or
\* could not be launched, and the run ended with REPO_DOESNT_EXISTS.
C22_Witness ==
    /\ last.op = "generate"
    /\ Reached("check-repo")
    /\ gen.env.run["get.repo"].kind \in {"timeout", "error"}
    /\ last.code = REPO_DOESNT_EXISTS
    /\ gen.queries = << >>

\* The position of key in the var_map of a backend.
VarMapIndex(backend, key) ==
    CHOOSE i \in 1..Len(backend.var_map) : backend.var_map[i][1] = key

\* The positions of the writes of one kind in the output of file i.
ChunksOfKind(i, kind) ==
    {j \in 1..Len(gen.files[i].chunks) : gen.files[i].chunks[j].kind = kind}

\* C23: in every file that generate wrote, the variable lines come in the
\* order of the backend's var_map, all of them after the prologue and before
\* the epilogue, and the generator attribution comment, wrapped in the comment
\* marker on both sides, is the last line of the file.
C23_VarMapOrder ==
    last.op = "generate" =>
        \A i \in 1..Len(gen.files) :
            LET ch == gen.files[i].chunks
                backend == gen.env.backends[gen.files[i].backend]
                vl == ChunksOfKind(i, "var")
            IN  /\ \A a, b \in vl :
                      a < b => VarMapIndex(backend, ch[a].key)
                                   < VarMapIndex(backend, ch[b].key)
                /\ Cardinality(ChunksOfKind(i, "begin")) = 1
                /\ ChunksOfKind(i, "end") = {Len(ch) - 1}
                /\ ChunksOfKind(i, "generated") = {Len(ch)}
                /\ \A j \in vl, b \in ChunksOfKind(i, "begin") : b < j /\ j < Len(ch) - 1
                /\ \A b \in ChunksOfKind(i, "begin") : ch[b].text = backend.source_begin
                /\ ch[Len(ch) - 1].text = backend.source_end
                /\ ch[Len(ch)].text
                      = "\n" \o backend.source_comment \o " generated using verhel.py "
                        \o backend.source_comment \o "\n"
                /\ LET lines == splitlines(ch[Len(ch)].text)
                   IN  lines[Len(lines)]
                         = backend.source_comment \o " generated using verhel.py "
                           \o backend.source_comment

\* A file was written for a project that excludes version.major: its first
\* variable line is that of version.minor, later ones are those of
\* version.patch and build.date, and it ends with "// generated using
\* verhel.py //".
C23_Witness ==
    /\ last.op = "generate"
    /\ Len(gen.files) > 0
    /\ Excluded("version.major")
    /\ LET ch == gen.files[1].chunks
           vl == ChunksOfKind(1, "var")
       IN  /\ Cardinality(vl) > 2
           /\ ch[Min(vl)].key = "version.minor"
           /\ ch[Min(vl) + 1].key = "version.patch"
           /\ \E j \in vl : j > Min(vl) + 1 /\ ch[j].key = "build.date"
           /\ ch[Len(ch)].text = "\n// generated using verhel.py //\n"

\* The lines of the license text of the last run; none when it has no text.
LicenseLines ==
    IF gen.license_text = VNull THEN << >> ELSE splitlines(rstrip(gen.license_text.s))

\* The header of file i: its writes before the prologue.
HeaderOf(i) ==
    LET ch == gen.files[i].chunks
    IN  SubSeq(ch, 1, Min(ChunksOfKind(i, "begin")) - 1)

\* The concatenation of the texts of a sequence of writes.
RECURSIVE TextOf(_)
TextOf(ch) == IF ch = << >> THEN "" ELSE Head(ch).text \o TextOf(Tail(ch))

\* The lines license text gives in the header, one per line of the text.
RECURSIVE Commented(_, _)
Commented(c, lines) ==
    IF lines = << >> THEN << >> ELSE <<c \o " " \o Head(lines)>> \o Commented(c, Tail(lines))

\* C24: the header of every file that generate wrote consists of the lines of
\* the license text, each prefixed by the comment marker, when there is a
\* license text; then, when the cooked license.spdx is not null, the
\* SPDX-License-Identifier comment line, preceded by a blank comment line
\* exactly when license lines were written.
C24_Header ==
    last.op = "generate" =>
        \A i \in 1..Len(gen.files) :
            LET c == gen.env.backends[gen.files[i].backend].source_comment
                spdx == gen.cooked["license.spdx"]
                license == Commented(c, LicenseLines)
            IN  splitlines(TextOf(HeaderOf(i)))
                  = license
                    \o (IF spdx # VNull /\ license # << >> THEN <<c>> ELSE << >>)
                    \o (IF spdx # VNull
                        THEN <<c \o " SPDX-License-Identifier: " \o spdx.s>> ELSE << >>)

\* C25: a set that ends with SUCCESS on a project that passes validate_project
\* leaves a stored project that passes validate_project.
C25_SetKeepsValid ==
    [][(/\ last'.op = "set" /\ last'.code = SUCCESS /\ last'.exc = "none"
        /\ fileState = "ok"
        /\ validate_project(store, last'.project))
       => validate_project(store', last'.project)]_vars

\* The integer properties of a project.
IntProperties == {"version.major", "version.minor", "version.patch"}

\* C26: set with an invalid property name ends with INVALID_KEY whatever the
\* state of the projects file, and set on an integer property of a stored
\* project with a value that is no integer literal, the text "null" included,
\* ends with INVALID_VALUE; both leave the projects file and its store
\* unchanged.
C26_SetRejects ==
    [][last'.op = "set" =>
        /\ ~check_if_name_is_valid(last'.prop).ok =>
              /\ last'.code = INVALID_KEY /\ last'.exc = "none"
              /\ fileState' = fileState /\ store' = store
        /\ (/\ last'.prop \in IntProperties
            /\ last'.value = "null" \/ ~int(last'.value).ok
            /\ fileState = "ok"
            /\ TypeOf(ProjectsGet(store, last'.project)) = "obj") =>
              /\ last'.code = INVALID_VALUE /\ last'.exc = "none"
              /\ fileState' = fileState /\ store' = store]_vars

\* set of version.major to "null" on a project whose version.major is 1 ended
\* with INVALID_VALUE, and the project still holds 1.
C26_Witness ==
    /\ last.op = "set"
    /\ last.prop = "version.major"
    /\ last.value = "null"
    /\ last.code = INVALID_VALUE
    /\ fileState = "ok"
    /\ TypeOf(Project) = "obj"
    /\ DictGet(Project, "version.major") = VInt(1)

\* C27: init of a name the store holds ends with PROJECT_ALREADY_EXISTS and
\* neither saves nor changes the store; otherwise (the projects file being
\* loadable and writable) it ends with SUCCESS, adds the empty project under
\* the name and nothing else, and the new project passes validate and fails
\* generate (run without a global descriptor) with VERSION_IS_NULL.
C27_Init ==
    [][(last'.op = "init" /\ fileState # "malformed" /\ ~SaveFailed(last')) =>
        IF fileState = "ok" /\ last'.project \in DOMAIN store
        THEN /\ last'.code = PROJECT_ALREADY_EXISTS /\ last'.exc = "none"
             /\ last'.save = "none"
             /\ fileState' = fileState /\ store' = store
        ELSE /\ last'.code = SUCCESS /\ last'.exc = "none"
             /\ fileState' = "ok"
             /\ DOMAIN store' = (DOMAIN store) \cup {last'.project}
             /\ store'[last'.project] = empty_project
             /\ \A n \in DOMAIN store : store'[n] = store[n]
             /\ validate_handler(fileState', store', last'.project).code = SUCCESS
             /\ \A env \in MainEnvs :
                   generate_handler(fileState', store', last'.project, "", env).res
                     = Ret(VERSION_IS_NULL)]_vars

\* C28: a generate run that reaches the rendering of the sources ends with
\* SUCCESS whatever its tally is, and the tally lies between 0 and the number
\* of entries of the backends list and counts the entries whose backend is
\* implemented and whose file was written.
C28_TallyDoesNotDecide ==
    (last.op = "generate" /\ Reached("generate-sources")) =>
        LET l == BackendsOf(gen.desc)
            written == {i \in 1..Len(l) :
                          /\ FirstKey(l[i]) \in DOMAIN gen.env.backends
                          /\ l[i].f[FirstKey(l[i])].s
                                \notin gen.env.write_fail \cup gen.env.mkdir_fail}
        IN  /\ last.exc = "none" /\ last.code = SUCCESS
            /\ gen.num_success \in 0..Len(l)
            /\ gen.num_success = Cardinality(written)
            /\ gen.num_success = Len(gen.files)

====
